---- MODULE Spec2Model ----
(***************************************************************************)
(* codealchemy-postman: the response search engine and the workspace       *)
(* store of the latest UI (src/unnamed/part_001).                          *)
(*                                                                         *)
(* A Go string is a sequence of bytes; a byte is written as a one-token    *)
(* string ("k", "E2", ...).  All offsets are byte offsets, counted from 0  *)
(* as in the source.                                                       *)
(***************************************************************************)
EXTENDS Integers, Sequences, FiniteSets, TLC

\* ------------------------------------------------------------------ bounds
\* JSONata may capture a displayed text of at most this many bytes.
MaxTextLen == 20

\* ------------------------------------------------------------- byte strings
Q == "\""
SP == " "

\* U+212A KELVIN SIGN, whose lower case is the one-byte "k"
Kelvin == <<"E2", "84", "AA">>

\* U+FFFD, what strings.Map writes for a byte that is not valid UTF-8
RuneError == <<"EF", "BF", "BD">>

\* the four markers of highlightText, byte for byte
CurOpen == <<"C3", "A3", "E2", "82", "AC">>
CurClose == <<"C3", "A3", "E2", "82", "AC", "E2", "80", "98">>
OthOpen == <<"C3", "A3", "E2", "82", "AC", "E2", "80", "9D">>
OthClose == <<"C3", "A3", "E2", "82", "AC", "E2", "80", "A2">>

\* UTF-8 continuation bytes (0x80..0xBF) among the tokens used
ContBytes == {"84", "AA", "A3", "82", "AC", "80", "98", "9D", "A2", "BF", "BD"}

\* lead bytes of a two-byte and of a three-byte sequence among the tokens used
Lead2 == {"C3"}
Lead3 == {"E2", "EF"}

\* ASCII upper-case letters among the tokens used, with their lower case
UpperCase == {"A", "K", "R", "H", "T", "P"}
LowerOf(c) ==
    CASE c = "A" -> "a"
      [] c = "K" -> "k"
      [] c = "R" -> "r"
      [] c = "H" -> "h"
      [] c = "T" -> "t"
      [] c = "P" -> "p"
      [] OTHER -> c

Min(S) == CHOOSE x \in S : \A y \in S : x <= y

\* Go s[a:b], 0-based, half open
Slice(s, a, b) == SubSeq(s, a + 1, b)

\* width in bytes of the rune that starts at 0-based offset i of s, as
\* utf8.DecodeRuneInString decodes it (1 for an invalid byte)
RuneWidth(s, i) ==
    LET c == s[i + 1] IN
    IF c \in Lead3 /\ i + 3 <= Len(s) /\ s[i + 2] \in ContBytes /\ s[i + 3] \in ContBytes
      THEN 3
    ELSE IF c \in Lead2 /\ i + 2 <= Len(s) /\ s[i + 2] \in ContBytes
      THEN 2
    ELSE 1

\* TRUE when the byte at offset i is neither ASCII nor the start of a valid rune
InvalidAt(s, i) ==
    /\ RuneWidth(s, i) = 1
    /\ s[i + 1] \in (ContBytes \cup Lead2 \cup Lead3)

\* the lower case of the rune that starts at offset i
LowerRune(s, i) ==
    LET w == RuneWidth(s, i) IN
    IF InvalidAt(s, i) THEN RuneError
    ELSE IF w = 1 THEN <<LowerOf(s[i + 1])>>
    ELSE IF Slice(s, i, i + w) = Kelvin THEN <<"k">>
    ELSE Slice(s, i, i + w)

RECURSIVE LowerFrom(_, _)
LowerFrom(s, i) ==
    IF i >= Len(s) THEN <<>>
    ELSE LowerRune(s, i) \o LowerFrom(s, i + RuneWidth(s, i))

\* strings.ToLower
ToLower(s) == LowerFrom(s, 0)

\* white space, for strings.TrimSpace and for encoding/json alike
WhiteSpace == {SP, "\n", "\t", "\r"}

\* strings.TrimSpace
RECURSIVE TrimLeft(_)
TrimLeft(s) == IF s # <<>> /\ Head(s) \in WhiteSpace THEN TrimLeft(Tail(s)) ELSE s
RECURSIVE TrimRight(_)
TrimRight(s) ==
    IF s # <<>> /\ s[Len(s)] \in WhiteSpace
    THEN TrimRight(SubSeq(s, 1, Len(s) - 1))
    ELSE s
TrimSpace(s) == TrimRight(TrimLeft(s))

\* strings.Index(h[start:], n) + start, or -1
MatchAt(h, n, i) == i + Len(n) <= Len(h) /\ Slice(h, i, i + Len(n)) = n
IndexFrom(h, n, start) ==
    LET S == {i \in start..(Len(h) - Len(n)) : MatchAt(h, n, i)} IN
    IF S = {} THEN -1 ELSE Min(S)


\* ------------------------------------------------------------------- inputs
\* bodies a server may answer with
Bodies ==
    { <<>>,
      <<"k", "k", "k", "k">>,
      <<"o", "k", SP, "f", "i", "n", "e", SP, "o", "k", SP, "d", "o", "n", "e">>,
      <<"K", "b", "k">>,
      <<Q, "k", "b", Q>>,
      <<SP, Q, "k", Q>>,
      Kelvin \o <<"b">>,
      <<Q>> \o Kelvin \o <<"b", Q>> }

\* texts the user may type into the search entry
Queries ==
    { <<>>, <<SP>>, <<"k">>, <<SP, "k">>, <<"k", "k">>, <<"o", "k">>,
      <<"b">>, <<"d">>, <<Q>>, Kelvin }

\* messages of the three failing sends (the prefix fmt.Sprintf writes)
RequestErrorText ==
    <<"R", "e", "q", "u", "e", "s", "t", SP, "e", "r", "r", "o", "r", ":", SP>>
HTTPErrorText == <<"H", "T", "T", "P", SP, "e", "r", "r", "o", "r", ":", SP>>
ReadErrorText == <<"R", "e", "a", "d", SP, "e", "r", "r", "o", "r", ":", SP>>

\* -------------------------------------------------------------- parseHeaders
CO == ":"
NL == "\n"

\* bytes net/textproto accepts in a header key, among the bytes used here
TokenBytes == {"a", "A", "k", "K", "b", "-", "1", "2"}

UpperOf(c) ==
    CASE c = "a" -> "A"
      [] c = "k" -> "K"
      [] c = "b" -> "B"
      [] OTHER -> c

\* textproto.CanonicalMIMEHeaderKey: a key with a byte that is no token byte
\* is left as it is; otherwise the first letter and every letter after a "-"
\* is made upper case and every other letter lower case
RECURSIVE CanonFrom(_, _, _)
CanonFrom(key, i, upper) ==
    IF i > Len(key) THEN <<>>
    ELSE <<IF upper THEN UpperOf(key[i]) ELSE LowerOf(key[i])>>
           \o CanonFrom(key, i + 1, key[i] = "-")

CanonicalMIMEHeaderKey(key) ==
    IF \E i \in 1..Len(key) : key[i] \notin TokenBytes THEN key
    ELSE CanonFrom(key, 1, TRUE)

\* strings.Split(s, sep) for a one-byte separator
RECURSIVE Split(_, _)
Split(s, sep) ==
    LET S == {i \in 1..Len(s) : s[i] = sep} IN
    IF S = {} THEN <<s>>
    ELSE <<SubSeq(s, 1, Min(S) - 1)>> \o Split(SubSeq(s, Min(S) + 1, Len(s)), sep)

\* strings.SplitN(line, ":", 2)
SplitN2(line) ==
    LET S == {i \in 1..Len(line) : line[i] = CO} IN
    IF S = {} THEN <<line>>
    ELSE <<SubSeq(line, 1, Min(S) - 1), SubSeq(line, Min(S) + 1, Len(line))>>

\* a map (http.Header, map[string]string) is a set of <<key, value>> pairs
\* with one pair for a key
Keys(m) == {kv[1] : kv \in m}
Get(m, k) == (CHOOSE kv \in m : kv[1] = k)[2]
Put(m, k, v) == {kv \in m : kv[1] # k} \cup {<<k, v>>}

\* http.Header.Add
HeaderAdd_Set(h, key, value) == Put(h, CanonicalMIMEHeaderKey(key), <<value>>)

HeaderAdd(h, key, value) ==
    LET k == CanonicalMIMEHeaderKey(key) IN
    IF k \in Keys(h) THEN Put(h, k, Append(Get(h, k), value))
    ELSE Put(h, k, <<value>>)

RECURSIVE ParseLines(_, _, _)
ParseLines(lines, i, headers) ==
    IF i > Len(lines) THEN headers
    ELSE LET line == lines[i]
             parts == SplitN2(line)
         IN IF TrimSpace(line) = <<>> \/ Len(parts) # 2
            THEN ParseLines(lines, i + 1, headers)
            ELSE ParseLines(lines, i + 1,
                            HeaderAdd(headers, TrimSpace(parts[1]), TrimSpace(parts[2])))

parseHeaders(headerStr) == ParseLines(Split(headerStr, NL), 1, {})

\* -------------------------------------------------------------------- state
VARIABLES
    jsonResponse,        \* jsonResponse.Text, the displayed response text
    searchEntry,         \* searchEntry.Text
    currentSearchQuery,
    searchResults,       \* match offsets, 0-based
    currentMatchIndex,   \* -1 when there is none
    originalText,        \* the capture; <<>> when none is held
    navEnabled,          \* prevIcon, nextIcon and clearIcon are enabled
    crashed,             \* a handler panicked: the process is gone
    respText,            \* history: the text the last send displayed
    lastOp,              \* history: the handler that ran last
    workspaces,          \* the in-memory store
    disk,                \* the persisted document
    workspaceSelected,   \* workspaceSelect.Selected
    workspaceOptions,    \* workspaceSelect.Options
    collectionOptions,   \* collectionSelect.Options
    selectedCollectionIdx,
    methodSelected,      \* methodSelect.Selected
    urlEntry,            \* urlEntry.Text
    headersEntry,        \* headersEntry.Text
    bodyEntry,           \* bodyEntry.Text
    message,             \* the dialog the last handler showed, "" for none
    saveFailures,        \* history: the number of saves that failed
    loadErr,             \* history: the error of loadWorkspaces that main dropped
    tappedRow,           \* history: the row whose button ran the last handler, or -1
    sentHeaders,         \* history: the headers the last send parsed
    sentBody,            \* history: the body the last send gave to http.NewRequest
    reqSize,             \* history: reqSize of the last send
    headersBox,          \* headersBox.Text
    responseMeta,        \* responseMeta.Text
    statusColor,         \* statusColor.FillColor
    responseStatus,      \* responseStatus.Text
    interchange,         \* history: the Postman file the last store handler read or wrote
    pending              \* the request dialog that is open and what its callback holds

searchVars ==
    <<jsonResponse, searchEntry, currentSearchQuery, searchResults,
      currentMatchIndex, originalText, navEnabled, respText>>

formVars == <<methodSelected, urlEntry, headersEntry, bodyEntry>>

selectVars == <<workspaceSelected, workspaceOptions, collectionOptions, selectedCollectionIdx>>

\* what a send leaves alone outside the search state
keptBySend ==
    <<workspaces, disk, selectVars, formVars, message, saveFailures, loadErr, tappedRow,
      pending>>

\* the response displays beside jsonResponse
viewVars == <<headersBox, responseMeta, statusColor, responseStatus>>

\* what a send hands to net/http
sendVars == <<sentHeaders, sentBody, reqSize>>

storeVars == <<keptBySend, interchange, sendVars, viewVars>>

vars == <<searchVars, storeVars, crashed, lastOp>>

\* ------------------------------------------------------------ highlightText
\* the scan loop: [res |-> offsets, panic |-> the slice lowerText[startPos:]
\* was out of range]
RECURSIVE ScanFrom(_, _, _, _, _)
ScanFrom(lowerText, lowerQuery, qlen, startPos, acc) ==
    IF startPos > Len(lowerText) THEN [res |-> acc, panic |-> TRUE]
    ELSE LET absoluteIdx == IndexFrom(lowerText, lowerQuery, startPos) IN
         IF absoluteIdx = -1 THEN [res |-> acc, panic |-> FALSE]
         ELSE ScanFrom(lowerText, lowerQuery, qlen, absoluteIdx + qlen,
                       Append(acc, absoluteIdx))

Scan(text, query) == ScanFrom(ToLower(text), ToLower(query), Len(query), 0, <<>>)

\* the marker pair put around match number i (0-based)
Highlighted(mid, i, currentIdx) ==
    IF i = currentIdx THEN CurOpen \o mid \o CurClose
    ELSE OthOpen \o mid \o OthClose

\* the insertion loop, from match number i (0-based) on
RECURSIVE RenderFrom(_, _, _, _, _, _)
RenderFrom(result, offset, i, results, qlen, currentIdx) ==
    IF i >= Len(results) THEN result
    ELSE LET start == results[i + 1] + offset
             end == start + qlen
         IN IF end <= Len(result)
            THEN LET highlighted == Highlighted(Slice(result, start, end), i, currentIdx)
                 IN RenderFrom(Slice(result, 0, start) \o highlighted
                                  \o Slice(result, end, Len(result)),
                               offset + Len(highlighted) - qlen,
                               i + 1, results, qlen, currentIdx)
            ELSE RenderFrom(result, offset, i + 1, results, qlen, currentIdx)

Render(text, query, results, currentIdx) ==
    RenderFrom(text, 0, 0, results, Len(query), currentIdx)

\* highlightText(text, query, currentIdx) for a non-empty query: the text it
\* returns, the searchResults it leaves, and whether it panicked
highlightText(text, query, currentIdx) ==
    LET sc == Scan(text, query) IN
    [ text |-> IF sc.panic THEN text ELSE Render(text, query, sc.res, currentIdx),
      results |-> sc.res,
      panic |-> sc.panic ]


\* ------------------------------------------------------------ encoding/json
\* json.Valid / json.Unmarshal succeeding, for the bytes used here: the only
\* JSON value these bytes can spell is a string literal, with spaces around
JsonValid(s) ==
    LET t == TrimSpace(s) IN
    /\ Len(t) >= 2
    /\ t[1] = Q
    /\ t[Len(t)] = Q
    /\ \A i \in 2..(Len(t) - 1) : t[i] # Q

\* json.Indent of a valid scalar: leading space dropped, the rest copied
JsonIndent(s) == TrimLeft(s)

\* --------------------------------------------------------- updateSearchNav
updateSearchNav(results, idx) == Len(results) > 0 /\ idx >= 0

\* navigateToMatch as it would be if it did not put the re-rendered text on
\* display
navigateToMatch_NoSetText(matchIndex, results, idx, display, enabled, otext, query) ==
    IF Len(results) = 0 \/ matchIndex < 0 \/ matchIndex >= Len(results)
    THEN [display |-> display, results |-> results, idx |-> idx,
          enabled |-> enabled, panic |-> FALSE]
    ELSE LET rehighlight == otext # <<>> /\ query # <<>>
             h == highlightText(otext, query, matchIndex)
             newResults == IF rehighlight THEN h.results ELSE results
             text == IF otext = <<>> THEN display ELSE otext
         IN [display |-> display,
             results |-> newResults,
             idx |-> matchIndex,
             enabled |-> updateSearchNav(newResults, matchIndex),
             panic |-> \/ rehighlight /\ h.panic
                       \/ matchIndex >= Len(newResults)
                       \/ newResults[matchIndex + 1] > Len(text)]

\* ---------------------------------------------------------- navigateToMatch
\* navigateToMatch(matchIndex) run on the given values of the globals
\* (searchResults, currentMatchIndex, jsonResponse.Text, the buttons,
\* originalText, currentSearchQuery): the values it leaves, and whether it
\* panicked
navigateToMatch(matchIndex, results, idx, display, enabled, otext, query) ==
    IF Len(results) = 0 \/ matchIndex < 0 \/ matchIndex >= Len(results)
    THEN [display |-> display, results |-> results, idx |-> idx,
          enabled |-> enabled, panic |-> FALSE]
    ELSE LET rehighlight == otext # <<>> /\ query # <<>>
             h == highlightText(otext, query, matchIndex)
             newResults == IF rehighlight THEN h.results ELSE results
             newDisplay == IF rehighlight THEN h.text ELSE display
             text == IF otext = <<>> THEN newDisplay ELSE otext
         IN [display |-> newDisplay,
             results |-> newResults,
             idx |-> matchIndex,
             enabled |-> updateSearchNav(newResults, matchIndex),
             panic |-> \/ rehighlight /\ h.panic
                       \/ matchIndex >= Len(newResults)
                       \/ newResults[matchIndex + 1] > Len(text)]

\* a handler panicked: the process ends, nothing of the handler's work is left
Crash(op) ==
    /\ crashed' = TRUE
    /\ lastOp' = op
    /\ UNCHANGED <<searchVars, storeVars>>

\* the globals after a navigateToMatch call that returned
ApplyNav(nav, op) ==
    /\ jsonResponse' = nav.display
    /\ searchResults' = nav.results
    /\ currentMatchIndex' = nav.idx
    /\ navEnabled' = nav.enabled
    /\ crashed' = FALSE
    /\ lastOp' = op

\* searchAction as it would be if a repeated query started over at the first
\* match
searchAction_StartsOver(typed) ==
    LET query == TrimSpace(typed) IN
    /\ ~crashed
    /\ UNCHANGED storeVars
    /\ IF query = <<>>
       THEN /\ searchEntry' = typed
            /\ jsonResponse' = IF originalText # <<>> THEN originalText ELSE jsonResponse
            /\ originalText' = <<>>
            /\ currentSearchQuery' = <<>>
            /\ searchResults' = <<>>
            /\ currentMatchIndex' = -1
            /\ navEnabled' = updateSearchNav(<<>>, -1)
            /\ lastOp' = "searchEmpty"
            /\ UNCHANGED <<crashed, respText>>
       ELSE IF currentSearchQuery # query
       THEN LET otext == IF originalText = <<>> THEN jsonResponse ELSE originalText
                h == highlightText(otext, query, 0)
                nav == navigateToMatch(0, h.results, 0, jsonResponse, navEnabled, otext, query)
            IN IF h.panic \/ (Len(h.results) > 0 /\ nav.panic)
               THEN Crash("searchNew")
               ELSE /\ searchEntry' = typed
                    /\ originalText' = otext
                    /\ currentSearchQuery' = query
                    /\ IF Len(h.results) > 0
                       THEN /\ jsonResponse' = nav.display
                            /\ searchResults' = nav.results
                            /\ currentMatchIndex' = nav.idx
                            /\ navEnabled' = updateSearchNav(nav.results, nav.idx)
                       ELSE /\ jsonResponse' = otext
                            /\ searchResults' = h.results
                            /\ currentMatchIndex' = -1
                            /\ navEnabled' = updateSearchNav(h.results, -1)
                    /\ lastOp' = "searchNew"
                    /\ UNCHANGED <<crashed, respText>>
       ELSE IF Len(searchResults) > 0
       THEN LET nextIdx == 0
                nav == navigateToMatch(nextIdx, searchResults, currentMatchIndex,
                                       jsonResponse, navEnabled, originalText,
                                       currentSearchQuery)
            IN IF nav.panic THEN Crash("searchSame")
               ELSE /\ ApplyNav(nav, "searchSame")
                    /\ searchEntry' = typed
                    /\ UNCHANGED <<originalText, currentSearchQuery, respText>>
       ELSE /\ searchEntry' = typed
            /\ lastOp' = "searchSame"
            /\ UNCHANGED <<jsonResponse, currentSearchQuery, searchResults,
                           currentMatchIndex, originalText, navEnabled, crashed,
                           respText>>

\* ------------------------------------------------------------- searchAction
\* the user leaves `typed` in the search entry and submits it
searchAction(typed) ==
    LET query == TrimSpace(typed) IN
    /\ ~crashed
    /\ UNCHANGED storeVars
    /\ IF query = <<>>
       THEN /\ searchEntry' = typed
            /\ jsonResponse' = IF originalText # <<>> THEN originalText ELSE jsonResponse
            /\ originalText' = <<>>
            /\ currentSearchQuery' = <<>>
            /\ searchResults' = <<>>
            /\ currentMatchIndex' = -1
            /\ navEnabled' = updateSearchNav(<<>>, -1)
            /\ lastOp' = "searchEmpty"
            /\ UNCHANGED <<crashed, respText>>
       ELSE IF currentSearchQuery # query
       THEN LET otext == IF originalText = <<>> THEN jsonResponse ELSE originalText
                h == highlightText(otext, query, 0)
                nav == navigateToMatch(0, h.results, 0, jsonResponse, navEnabled, otext, query)
            IN IF h.panic \/ (Len(h.results) > 0 /\ nav.panic)
               THEN Crash("searchNew")
               ELSE /\ searchEntry' = typed
                    /\ originalText' = otext
                    /\ currentSearchQuery' = query
                    /\ IF Len(h.results) > 0
                       THEN /\ jsonResponse' = nav.display
                            /\ searchResults' = nav.results
                            /\ currentMatchIndex' = nav.idx
                            /\ navEnabled' = updateSearchNav(nav.results, nav.idx)
                       ELSE /\ jsonResponse' = otext
                            /\ searchResults' = h.results
                            /\ currentMatchIndex' = -1
                            /\ navEnabled' = updateSearchNav(h.results, -1)
                    /\ lastOp' = "searchNew"
                    /\ UNCHANGED <<crashed, respText>>
       ELSE IF Len(searchResults) > 0
       THEN LET nextIdx == (currentMatchIndex + 1) % Len(searchResults)
                nav == navigateToMatch(nextIdx, searchResults, currentMatchIndex,
                                       jsonResponse, navEnabled, originalText,
                                       currentSearchQuery)
            IN IF nav.panic THEN Crash("searchSame")
               ELSE /\ ApplyNav(nav, "searchSame")
                    /\ searchEntry' = typed
                    /\ UNCHANGED <<originalText, currentSearchQuery, respText>>
       ELSE /\ searchEntry' = typed
            /\ lastOp' = "searchSame"
            /\ UNCHANGED <<jsonResponse, currentSearchQuery, searchResults,
                           currentMatchIndex, originalText, navEnabled, crashed,
                           respText>>

\* prevTapped as it would be if it stopped at the first match
prevTapped_NoWrap ==
    /\ ~crashed
    /\ UNCHANGED storeVars
    /\ navEnabled
    /\ IF Len(searchResults) = 0
       THEN /\ lastOp' = "prev"
            /\ UNCHANGED <<searchVars, crashed>>
       ELSE LET prevIdx == IF currentMatchIndex - 1 < 0
                           THEN 0
                           ELSE currentMatchIndex - 1
                nav == navigateToMatch(prevIdx, searchResults, currentMatchIndex,
                                       jsonResponse, navEnabled, originalText,
                                       currentSearchQuery)
            IN IF nav.panic THEN Crash("prev")
               ELSE /\ ApplyNav(nav, "prev")
                    /\ UNCHANGED <<searchEntry, originalText, currentSearchQuery, respText>>

\* ------------------------------------------------------- prevIcon.OnTapped
prevTapped ==
    /\ ~crashed
    /\ UNCHANGED storeVars
    /\ navEnabled
    /\ IF Len(searchResults) = 0
       THEN /\ lastOp' = "prev"
            /\ UNCHANGED <<searchVars, crashed>>
       ELSE LET prevIdx == IF currentMatchIndex - 1 < 0
                           THEN Len(searchResults) - 1
                           ELSE currentMatchIndex - 1
                nav == navigateToMatch(prevIdx, searchResults, currentMatchIndex,
                                       jsonResponse, navEnabled, originalText,
                                       currentSearchQuery)
            IN IF nav.panic THEN Crash("prev")
               ELSE /\ ApplyNav(nav, "prev")
                    /\ UNCHANGED <<searchEntry, originalText, currentSearchQuery, respText>>

\* ------------------------------------------------------- nextIcon.OnTapped
nextTapped ==
    /\ ~crashed
    /\ UNCHANGED storeVars
    /\ navEnabled
    /\ IF Len(searchResults) = 0
       THEN /\ lastOp' = "next"
            /\ UNCHANGED <<searchVars, crashed>>
       ELSE LET nextIdx == (currentMatchIndex + 1) % Len(searchResults)
                nav == navigateToMatch(nextIdx, searchResults, currentMatchIndex,
                                       jsonResponse, navEnabled, originalText,
                                       currentSearchQuery)
            IN IF nav.panic THEN Crash("next")
               ELSE /\ ApplyNav(nav, "next")
                    /\ UNCHANGED <<searchEntry, originalText, currentSearchQuery, respText>>

\* ------------------------------------------------------ clearIcon.OnTapped
clearTapped ==
    /\ ~crashed
    /\ UNCHANGED storeVars
    /\ navEnabled
    /\ searchEntry' = <<>>
    /\ jsonResponse' = IF originalText # <<>> THEN originalText ELSE jsonResponse
    /\ originalText' = <<>>
    /\ currentSearchQuery' = <<>>
    /\ searchResults' = <<>>
    /\ currentMatchIndex' = -1
    /\ navEnabled' = updateSearchNav(<<>>, -1)
    /\ lastOp' = "clear"
    /\ UNCHANGED <<crashed, respText>>


\* ------------------------------------------------------ jsonataBtn.OnTapped
\* expr: "empty" (no expression typed), "bad" (jsonpath.Get fails on it) or
\* "ok" (jsonpath.Get evaluates it)
ExprKinds == {"empty", "bad", "ok"}

jsonataTapped(expr) ==
    LET jsonText == IF originalText = <<>> THEN jsonResponse ELSE originalText IN
    /\ ~crashed
    /\ UNCHANGED storeVars
    /\ Len(jsonResponse) <= MaxTextLen
    /\ lastOp' = "jsonata"
    /\ IF expr = "empty" \/ ~JsonValid(jsonText) \/ expr = "bad"
       THEN UNCHANGED <<searchVars, crashed>>
       ELSE /\ originalText' = jsonResponse
            /\ currentSearchQuery' = <<>>
            /\ searchResults' = <<>>
            /\ currentMatchIndex' = -1
            /\ navEnabled' = updateSearchNav(<<>>, -1)
            /\ UNCHANGED <<jsonResponse, searchEntry, respText, crashed>>

\* strings.Join(v, ", ")
RECURSIVE Join(_)
Join(v) ==
    IF Len(v) = 0 THEN <<>>
    ELSE IF Len(v) = 1 THEN v[1]
    ELSE v[1] \o <<",", SP>> \o Join(Tail(v))

\* the headersMap Save Request builds
FlattenHeaders(h) == {<<k, Join(Get(h, k))>> : k \in Keys(h)}

\* every order in which range-over-map may visit the pairs of m
Orders(m) ==
    {o \in [1..Cardinality(m) -> m] : \A kv \in m : \E i \in 1..Cardinality(m) : o[i] = kv}

\* the headers text written for the pairs in the order o
RECURSIVE HeaderText(_)
HeaderText(o) ==
    IF Len(o) = 0 THEN <<>>
    ELSE o[1][1] \o <<CO, SP>> \o o[1][2] \o <<NL>> \o HeaderText(Tail(o))

\* --------------------------------------------------------- sendBtn.OnTapped
\* the status codes and the headers a server may answer with, and the time
\* an exchange takes, in milliseconds
StatusCodes == {200, 302, 404}
ResponseHeader == {<< <<"T">>, << <<"j">> >> >>}
Elapsed == 5

Response(body, status) ==
    [kind |-> "ok", body |-> body, status |-> status, header |-> ResponseHeader,
     ms |-> Elapsed]

\* how a send ends: a request that cannot be built, a transport failure, a
\* response whose body cannot be read to its end (body: the bytes read before
\* the error), or a response with a body
SendOutcomes ==
    {[kind |-> "build"], [kind |-> "transport"],
     [kind |-> "read", body |-> <<"k">>, status |-> 200, header |-> ResponseHeader]}
      \cup {Response(b, 200) : b \in Bodies}

\* the text a send puts into jsonResponse
ResponseText(outcome) ==
    CASE outcome.kind = "build" -> RequestErrorText
      [] outcome.kind = "transport" -> HTTPErrorText
      [] outcome.kind = "read" -> ReadErrorText
      [] OTHER -> IF JsonValid(outcome.body)
                  THEN JsonIndent(outcome.body)
                  ELSE outcome.body

\* the methods that are sent without a body
BodilessMethods == {"GET", "DELETE", "HEAD", "OPTIONS"}

\* the body argument of http.NewRequest: nil or a buffer of bytes
NoBody == [nil |-> TRUE]
Buffer(bytes) == [nil |-> FALSE, bytes |-> bytes]

RequestBody_GetOnly(method, body) ==
    IF method = "GET" THEN NoBody ELSE Buffer(body)

RequestBody(method, body) ==
    IF method \in BodilessMethods THEN NoBody ELSE Buffer(body)

ReqSize(method, body) ==
    IF method \in BodilessMethods THEN 0 ELSE Len(body)

\* the request a send builds from the form
SendRequest ==
    /\ sentHeaders' = parseHeaders(headersEntry)
    /\ sentBody' = RequestBody(methodSelected, bodyEntry)
    /\ reqSize' = ReqSize(methodSelected, bodyEntry)

\* a size in hundredths of a unit, rounded
Hundredths(size, unit) == (200 * size + unit) \div (2 * unit)

formatSize(size) ==
    IF size < 1024 THEN <<size, "bytes">>
    ELSE IF size < 1024 * 1024 THEN <<Hundredths(size, 1024), "KB">>
    ELSE <<Hundredths(size, 1024 * 1024), "MB">>

\* the fill colours of statusColor
Black == <<0, 0, 0, 255>>
Green == <<0, 200, 0, 255>>
Red == <<200, 0, 0, 255>>
Yellow == <<200, 200, 0, 255>>

\* the texts of empty labels
NoMeta == <<>>
NoStatus == <<>>

StatusColorOf(code) ==
    IF code >= 200 /\ code < 300 THEN Green
    ELSE IF code >= 400 THEN Red
    ELSE Yellow

StatusTextOf(code) ==
    IF code >= 200 /\ code < 300 THEN <<"green mark", code, "OK">>
    ELSE IF code >= 400 THEN <<"red mark", code, "Error">>
    ELSE <<"yellow mark", code>>

\* the response displays after a send: the three failures empty headersBox
\* and responseMeta and leave the status indicator alone
ShowResponse_KeepsHeaders(outcome) ==
    IF outcome.kind = "ok"
    THEN /\ \E o \in Orders(FlattenHeaders(outcome.header)) : headersBox' = HeaderText(o)
         /\ responseMeta' = <<outcome.ms, formatSize(reqSize'), formatSize(Len(outcome.body))>>
         /\ statusColor' = StatusColorOf(outcome.status)
         /\ responseStatus' = StatusTextOf(outcome.status)
    ELSE /\ responseMeta' = NoMeta
         /\ UNCHANGED <<headersBox, statusColor, responseStatus>>

ShowResponse(outcome) ==
    IF outcome.kind = "ok"
    THEN /\ \E o \in Orders(FlattenHeaders(outcome.header)) : headersBox' = HeaderText(o)
         /\ responseMeta' = <<outcome.ms, formatSize(reqSize'), formatSize(Len(outcome.body))>>
         /\ statusColor' = StatusColorOf(outcome.status)
         /\ responseStatus' = StatusTextOf(outcome.status)
    ELSE /\ headersBox' = <<>>
         /\ responseMeta' = NoMeta
         /\ UNCHANGED <<statusColor, responseStatus>>

\* sendTapped as it would be if the capture were not dropped with the rest of
\* the search state
sendTapped_KeepsCapture(outcome) ==
    /\ ~crashed
    /\ UNCHANGED <<keptBySend, interchange>>
    /\ SendRequest
    /\ ShowResponse(outcome)
    /\ jsonResponse' = ResponseText(outcome)
    /\ respText' = ResponseText(outcome)
    /\ currentSearchQuery' = <<>>
    /\ searchResults' = <<>>
    /\ currentMatchIndex' = -1
    /\ lastOp' = "send"
    /\ UNCHANGED <<originalText, searchEntry, navEnabled, crashed>>

sendTapped(outcome) ==
    /\ ~crashed
    /\ UNCHANGED <<keptBySend, interchange>>
    /\ SendRequest
    /\ ShowResponse(outcome)
    /\ jsonResponse' = ResponseText(outcome)
    /\ respText' = ResponseText(outcome)
    /\ originalText' = <<>>
    /\ currentSearchQuery' = <<>>
    /\ searchResults' = <<>>
    /\ currentMatchIndex' = -1
    /\ lastOp' = "send"
    /\ UNCHANGED <<searchEntry, navEnabled, crashed>>

\* =========================================================== workspace store
\* bounds of the store model
\* workspaces, collections and requests in the store, all together
MaxStoreSize == 4
\* saves that fail in one run
MaxSaveFailures == 1

NewWorkspaceOption == "+ New Workspace"
NewCollectionOption == "+ New Collection"

\* the options of methodSelect
Methods == {"GET", "POST", "PUT", "DELETE", "PATCH", "HEAD", "OPTIONS"}

\* names the user may type into the dialogs
WorkspaceNames == {"A"}
CollectionNames == {"c"}

\* ------------------------------------------------------------------- inputs
\* what the user may have typed into the request form
Forms ==
    { [method |-> "POST", url |-> "u",
       headers |-> <<"a", CO, "1", NL, "A", CO, SP, "2", NL, "k", NL>>, body |-> <<"x">>] }

\* how a saveWorkspaces call ends
SaveResults == {"ok", "fail", "partial"}

\* -------------------------------------------------------------- store helpers
RECURSIVE SumLens(_, _)
SumLens(seq, i) == IF i > Len(seq) THEN 0 ELSE seq[i] + SumLens(seq, i + 1)

NumCollections(wss) == SumLens([i \in 1..Len(wss) |-> Len(wss[i].collections)], 1)
NumRequestsOf(ws) ==
    SumLens([j \in 1..Len(ws.collections) |-> Len(ws.collections[j].requests)], 1)
NumRequests(wss) == SumLens([i \in 1..Len(wss) |-> NumRequestsOf(wss[i])], 1)

StoreSize(wss) == Len(wss) + NumCollections(wss) + NumRequests(wss)

WithinBounds(wss) == StoreSize(wss) <= MaxStoreSize

\* the 0-based index of the first workspace named name, -1 when there is none
\* (for i, ws := range workspaces { if ws.Name == name { wsIdx = i; break } })
FindWorkspace(wss, name) ==
    LET S == {i \in 1..Len(wss) : wss[i].name = name} IN
    IF S = {} THEN -1 ELSE Min(S) - 1

\* ---------------------------------------------------- the persisted document
\* The file is absent, unreadable, or holds a text.  A text that is JSON is
\* kept as the value it spells: null, a string, an array of values or an
\* object, a set of <<key, value>> members; encoding/json writes and reads
\* that value, and a text that is not JSON is Truncated.  A nil slice is
\* written null and an empty one []: both are read back as a slice of length
\* 0, and both are the empty array here.
NoFile == [t |-> "absent"]
Unreadable == [t |-> "unreadable"]
Truncated == [t |-> "malformed"]
JNull == [t |-> "null"]
JString(s) == [t |-> "string", s |-> s]
JArray(seq) == [t |-> "array", a |-> seq]
JObject(members) == [t |-> "object", o |-> members]
JNumber(n) == [t |-> "number", n |-> n]

\* json.Marshal of the three struct types, by their json tags
MarshalHeaders(h) == JObject({<<kv[1], JString(kv[2])>> : kv \in h})

MarshalRequest_NoBody(r) ==
    JObject({<<"name", JString(r.name)>>,
             <<"method", JString(r.method)>>,
             <<"url", JString(r.url)>>,
             <<"headers", MarshalHeaders(r.headers)>>})

MarshalRequest(r) ==
    JObject({<<"name", JString(r.name)>>,
             <<"method", JString(r.method)>>,
             <<"url", JString(r.url)>>,
             <<"headers", MarshalHeaders(r.headers)>>,
             <<"body", JString(r.body)>>})

MarshalCollection(c) ==
    JObject({<<"name", JString(c.name)>>,
             <<"requests", JArray([k \in 1..Len(c.requests) |-> MarshalRequest(c.requests[k])])>>})

MarshalWorkspace(ws) ==
    JObject({<<"name", JString(ws.name)>>,
             <<"collections",
               JArray([j \in 1..Len(ws.collections) |-> MarshalCollection(ws.collections[j])])>>})

\* json.MarshalIndent(workspaces, "", "  ")
MarshalIndent(wss) == JArray([i \in 1..Len(wss) |-> MarshalWorkspace(wss[i])])

\* the member of object o for a struct field, null when it is missing
Field(o, key) ==
    IF \E m \in o.o : m[1] = key THEN (CHOOSE m \in o.o : m[1] = key)[2] ELSE JNull

\* the member of j for a struct field, null when j is no object
Member(j, key) == IF j.t = "object" THEN Field(j, key) ELSE JNull

\* a member of another type than its field is skipped and reported; null and
\* a missing member leave the zero value
NotA(j, type) == j.t \notin {type, "null"}

\* a string field: the zero value unless the member is a string
StringOf(j) == IF j.t = "string" THEN j.s ELSE ""

\* a string field held as its bytes
BytesOf(j) == IF j.t = "string" THEN j.s ELSE <<>>

\* a slice field: the elements of an array, none for null
ElementsOf(j) == IF j.t = "array" THEN j.a ELSE <<>>

UnmarshalHeaders(j) ==
    IF j.t = "object" THEN {<<m[1], StringOf(m[2])>> : m \in j.o} ELSE {}

UnmarshalRequest(j) ==
    [name |-> StringOf(Member(j, "name")),
     method |-> StringOf(Member(j, "method")),
     url |-> StringOf(Member(j, "url")),
     headers |-> UnmarshalHeaders(Member(j, "headers")),
     body |-> BytesOf(Member(j, "body"))]

UnmarshalCollection(j) ==
    LET rs == ElementsOf(Member(j, "requests")) IN
    [name |-> StringOf(Member(j, "name")),
     requests |-> [k \in 1..Len(rs) |-> UnmarshalRequest(rs[k])]]

UnmarshalWorkspace(j) ==
    LET cs == ElementsOf(Member(j, "collections")) IN
    [name |-> StringOf(Member(j, "name")),
     collections |-> [k \in 1..Len(cs) |-> UnmarshalCollection(cs[k])]]

\* a value that does not fit APIRequest, Collection or Workspace
StoredRequestMismatch(j) ==
    \/ NotA(j, "object")
    \/ \E key \in {"name", "method", "url", "body"} : NotA(Member(j, key), "string")
    \/ NotA(Member(j, "headers"), "object")
    \/ /\ Member(j, "headers").t = "object"
       /\ \E m \in Member(j, "headers").o : NotA(m[2], "string")

StoredCollectionMismatch(j) ==
    \/ NotA(j, "object")
    \/ NotA(Member(j, "name"), "string")
    \/ NotA(Member(j, "requests"), "array")
    \/ \E k \in 1..Len(ElementsOf(Member(j, "requests"))) :
          StoredRequestMismatch(ElementsOf(Member(j, "requests"))[k])

StoredWorkspaceMismatch(j) ==
    \/ NotA(j, "object")
    \/ NotA(Member(j, "name"), "string")
    \/ NotA(Member(j, "collections"), "array")
    \/ \E k \in 1..Len(ElementsOf(Member(j, "collections"))) :
          StoredCollectionMismatch(ElementsOf(Member(j, "collections"))[k])

\* json.Unmarshal(data, &workspaces): the list and the error; after a type
\* error the list holds what could be decoded
Unmarshal_DropsPartial(file) ==
    IF file.t = "malformed" THEN [workspaces |-> <<>>, err |-> "SyntaxError"]
    ELSE IF file.t = "null" THEN [workspaces |-> <<>>, err |-> "nil"]
    ELSE IF file.t # "array" THEN [workspaces |-> <<>>, err |-> "UnmarshalTypeError"]
    ELSE IF \E i \in 1..Len(file.a) : StoredWorkspaceMismatch(file.a[i])
    THEN [workspaces |-> <<>>, err |-> "UnmarshalTypeError"]
    ELSE [workspaces |-> [i \in 1..Len(file.a) |-> UnmarshalWorkspace(file.a[i])],
          err |-> "nil"]

Unmarshal(file) ==
    IF file.t = "malformed" THEN [workspaces |-> <<>>, err |-> "SyntaxError"]
    ELSE IF file.t = "null" THEN [workspaces |-> <<>>, err |-> "nil"]
    ELSE IF file.t # "array" THEN [workspaces |-> <<>>, err |-> "UnmarshalTypeError"]
    ELSE [workspaces |-> [i \in 1..Len(file.a) |-> UnmarshalWorkspace(file.a[i])],
          err |-> IF \E i \in 1..Len(file.a) : StoredWorkspaceMismatch(file.a[i])
                  THEN "UnmarshalTypeError" ELSE "nil"]

\* loadWorkspaces: the list and the error it returns
loadWorkspaces_NoStat(file) ==
    IF file.t \in {"absent", "unreadable"} THEN [workspaces |-> <<>>, err |-> "ReadError"]
    ELSE Unmarshal(file)

loadWorkspaces(file) ==
    IF file.t = "absent" THEN [workspaces |-> <<>>, err |-> "nil"]
    ELSE IF file.t = "unreadable" THEN [workspaces |-> <<>>, err |-> "ReadError"]
    ELSE Unmarshal(file)

\* saveWorkspaces: the file after the call.  os.WriteFile truncates the file
\* and then writes: a call that fails before the file is opened leaves it as
\* it was ("fail"), one that fails while writing leaves a cut-off text
\* ("partial").
saveWorkspaces(wss, result, old) ==
    CASE result = "ok" -> MarshalIndent(wss)
      [] result = "fail" -> old
      [] OTHER -> Truncated

Failed(result) == IF result = "ok" THEN 0 ELSE 1

\* the options the collection dropdown gets for a workspace
CollectionOptionsOf(ws) ==
    <<NewCollectionOption>> \o [j \in 1..Len(ws.collections) |-> ws.collections[j].name]

WorkspaceOptionsOf(wss) ==
    <<NewWorkspaceOption>> \o [i \in 1..Len(wss) |-> wss[i].name]

InOptions(options, text) == \E i \in 1..Len(options) : options[i] = text

\* collectionSelect.OnChanged(selected), for a selected other than the
\* "+ New Collection" entry: the selectedCollectionIdx it leaves
collectionOnChanged(wss, wsSelected, selected) ==
    LET w == FindWorkspace(wss, wsSelected) IN
    IF w = -1 THEN -1
    ELSE LET cols == wss[w + 1].collections
             S == {j \in 1..Len(cols) : cols[j].name = selected}
         IN IF S = {} THEN -1 ELSE Min(S) - 1

\* collectionSelect.SetSelected(text): OnChanged runs only when text is one of
\* the options
collectionSetSelected(options, wss, wsSelected, text, idx) ==
    IF InOptions(options, text) THEN collectionOnChanged(wss, wsSelected, text) ELSE idx

\* workspaceSelect.OnChanged(selected), for a selected other than the
\* "+ New Workspace" entry
workspaceOnChanged(wss, selected) ==
    LET w == FindWorkspace(wss, selected)
        options == IF w = -1 THEN <<NewCollectionOption>>
                   ELSE CollectionOptionsOf(wss[w + 1])
    IN [options |-> options,
        idx |-> collectionSetSelected(options, wss, selected, "", -1)]

\* a handler of the store ran to its end
RowStep(op, row) ==
    /\ ~crashed
    /\ crashed' = FALSE
    /\ lastOp' = op
    /\ tappedRow' = row
    /\ UNCHANGED <<searchVars, loadErr, sendVars, viewVars, pending>>

\* a handler that reads or writes no Postman file
StoreStep(op) == RowStep(op, -1) /\ interchange' = NoFile


\* ------------------------------------------------ workspaceSelect.OnChanged
\* the user picks entry number i of the workspace dropdown, a workspace name
selectWorkspace(i) ==
    LET selected == workspaceOptions[i]
        r == workspaceOnChanged(workspaces, selected)
    IN /\ StoreStep("selectWorkspace")
       /\ selected # NewWorkspaceOption
       /\ workspaceSelected' = selected
       /\ collectionOptions' = r.options
       /\ selectedCollectionIdx' = r.idx
       /\ message' = ""
       /\ UNCHANGED <<workspaces, disk, saveFailures, workspaceOptions, formVars>>

\* ------------------------------------------------------- createNewWorkspace
\* the user picks "+ New Workspace" and closes the form: ok is the Create
\* button, text the name typed, result how the save ends
createNewWorkspace(ok, text, result) ==
    /\ StoreStep("createNewWorkspace")
    /\ message' = ""
    /\ UNCHANGED formVars
    /\ IF ~ok \/ text = ""
       THEN /\ workspaceSelected' = NewWorkspaceOption
            /\ UNCHANGED <<workspaces, disk, saveFailures, workspaceOptions, collectionOptions,
                           selectedCollectionIdx>>
       ELSE LET wss == Append(workspaces, [name |-> text, collections |-> <<>>])
                r == workspaceOnChanged(wss, text)
            IN /\ workspaces' = wss
               /\ disk' = saveWorkspaces(wss, result, disk)
               /\ saveFailures' = saveFailures + Failed(result)
               /\ saveFailures' <= MaxSaveFailures
               /\ IF result = "ok"
                  THEN /\ workspaceOptions' = WorkspaceOptionsOf(wss)
                       /\ workspaceSelected' = text
                       /\ collectionOptions' = <<NewCollectionOption>>
                       /\ selectedCollectionIdx' = r.idx
                  ELSE /\ workspaceSelected' = NewWorkspaceOption
                       /\ UNCHANGED <<workspaceOptions, collectionOptions,
                                      selectedCollectionIdx>>

\* ----------------------------------------------- collectionSelect.OnChanged
\* the user picks entry number i of the collection dropdown, a collection name
selectCollection(i) ==
    LET selected == collectionOptions[i] IN
    /\ StoreStep("selectCollection")
    /\ selected # NewCollectionOption
    /\ selectedCollectionIdx' = collectionOnChanged(workspaces, workspaceSelected, selected)
    /\ message' = ""
    /\ UNCHANGED <<workspaces, disk, saveFailures, workspaceSelected, workspaceOptions,
                   collectionOptions, formVars>>

\* ------------------------------------------------------ createNewCollection
\* the loop of the Create callback from workspace number i (1-based) on, over
\* st = [wss, disk, fails, options, idx]
RECURSIVE AddCollectionFrom(_, _, _, _)
AddCollectionFrom(i, st, text, results) ==
    IF i > Len(st.wss) THEN st
    ELSE IF st.wss[i].name # workspaceSelected
    THEN AddCollectionFrom(i + 1, st, text, results)
    ELSE LET wss == [st.wss EXCEPT ![i].collections =
                        Append(@, [name |-> text, requests |-> <<>>])]
             saved == results[i] = "ok"
             options == CollectionOptionsOf(wss[i])
         IN AddCollectionFrom(i + 1,
              [wss |-> wss,
               disk |-> saveWorkspaces(wss, results[i], st.disk),
               fails |-> st.fails + Failed(results[i]),
               options |-> IF saved THEN options ELSE st.options,
               idx |-> IF saved THEN Len(wss[i].collections) - 1 ELSE st.idx],
              text, results)

\* the user picks "+ New Collection" and closes the form
createNewCollection(ok, text, results) ==
    /\ StoreStep("createNewCollection")
    /\ UNCHANGED <<workspaceSelected, workspaceOptions, formVars>>
    /\ IF workspaceSelected = "" \/ workspaceSelected = NewWorkspaceOption
       THEN /\ message' = "No Workspace"
            /\ UNCHANGED <<workspaces, disk, saveFailures, collectionOptions, selectedCollectionIdx>>
       ELSE /\ message' = ""
            /\ IF ~ok \/ text = ""
               THEN UNCHANGED <<workspaces, disk, saveFailures, collectionOptions, selectedCollectionIdx>>
               ELSE LET st == AddCollectionFrom(1,
                                 [wss |-> workspaces, disk |-> disk, fails |-> saveFailures,
                                  options |-> collectionOptions,
                                  idx |-> selectedCollectionIdx], text, results)
                    IN /\ workspaces' = st.wss
                       /\ disk' = st.disk
                       /\ saveFailures' = st.fails
                       /\ st.fails <= MaxSaveFailures
                       /\ collectionOptions' = st.options
                       /\ selectedCollectionIdx' = st.idx

\* -------------------------------------------------------- importPostmanJSON
\* Postman files.  FlatFile is a v2.1 collection of one request with a url
\* object and a header given twice.
Schema == "https://schema.getpostman.com/json/collection/v2.1.0/collection.json"

PostmanHeader(key, value) ==
    JObject({<<"key", JString(key)>>, <<"value", JString(value)>>})

PostmanRequest(method, url, header, raw) ==
    JObject({<<"method", JString(method)>>,
             <<"header", JArray(header)>>,
             <<"url", url>>,
             <<"body", JObject({<<"mode", JString("raw")>>, <<"raw", JString(raw)>>})>>})

PostmanItem(name, request) ==
    JObject({<<"name", JString(name)>>, <<"request", request>>})

PostmanCollection(name, item) ==
    JObject({<<"info", JObject({<<"name", JString(name)>>, <<"schema", JString(Schema)>>})>>,
             <<"item", JArray(item)>>})

FlatFile ==
    PostmanCollection("p",
      << PostmanItem("u",
           PostmanRequest("PATCH", JObject({<<"raw", JString("u2")>>}),
                          <<PostmanHeader(<<"a">>, <<"1">>), PostmanHeader(<<"a">>, <<"2">>)>>,
                          <<"b", "1">>)) >>)

\* valid JSON with members missing
EmptyFile == JObject({})
SparseFile == JObject({<<"item", JArray(<<JObject({})>>)>>})

\* one item for each shape of the url member
ShapesFile ==
    LET Item(name, members) ==
          PostmanItem(name, JObject(members \cup {<<"method", JString("GET")>>}))
    IN PostmanCollection("s",
         << Item("string", {<<"url", JString("u1")>>}),
            Item("raw", {<<"url", JObject({<<"raw", JString("u2")>>,
                                           <<"host", JArray(<<JString("h")>>)>>})>>}),
            Item("number", {<<"url", JNumber(7)>>}),
            Item("array", {<<"url", JArray(<<JString("u3")>>)>>}),
            Item("null", {<<"url", JNull>>}),
            Item("absent", {}),
            Item("no raw", {<<"url", JObject({<<"host", JArray(<<JString("h")>>)>>})>>}),
            Item("raw number", {<<"url", JObject({<<"raw", JNumber(7)>>})>>}) >>)

\* a v2.1 collection with a folder: an item that holds items
FolderFile ==
    PostmanCollection("f",
      << JObject({<<"name", JString("folder")>>,
                  <<"item", JArray(<< PostmanItem("u",
                       PostmanRequest("POST", JString("u1"), <<>>, <<"b">>)) >>)>>}) >>)

\* a v2.1 collection whose request is given as its url
ShorthandFile == PostmanCollection("g", << PostmanItem("u", JString("u1")) >>)

PostmanFiles ==
    {Truncated, EmptyFile, SparseFile, FlatFile, ShapesFile, FolderFile, ShorthandFile}

\* the files the user may pick in the store runs
Payloads == {Truncated, FlatFile}

\* json.Unmarshal(data, &postman)

HeaderMismatch(j) ==
    NotA(j, "object") \/ NotA(Member(j, "key"), "string") \/ NotA(Member(j, "value"), "string")

RequestMismatch(j) ==
    \/ NotA(j, "object")
    \/ NotA(Member(j, "method"), "string")
    \/ NotA(Member(j, "header"), "array")
    \/ \E k \in 1..Len(ElementsOf(Member(j, "header"))) :
          HeaderMismatch(ElementsOf(Member(j, "header"))[k])
    \/ NotA(Member(j, "body"), "object")
    \/ NotA(Member(Member(j, "body"), "raw"), "string")

ItemMismatch(j) ==
    \/ NotA(j, "object")
    \/ NotA(Member(j, "name"), "string")
    \/ RequestMismatch(Member(j, "request"))

PostmanMismatch(j) ==
    \/ NotA(j, "object")
    \/ NotA(Member(j, "info"), "object")
    \/ NotA(Member(Member(j, "info"), "name"), "string")
    \/ NotA(Member(j, "item"), "array")
    \/ \E k \in 1..Len(ElementsOf(Member(j, "item"))) :
          ItemMismatch(ElementsOf(Member(j, "item"))[k])

UnmarshalPostmanItem(j) ==
    LET request == Member(j, "request")
        header == ElementsOf(Member(request, "header"))
    IN [name |-> StringOf(Member(j, "name")),
        method |-> StringOf(Member(request, "method")),
        url |-> Member(request, "url"),
        header |-> [k \in 1..Len(header) |->
                      [key |-> BytesOf(Member(header[k], "key")),
                       value |-> BytesOf(Member(header[k], "value"))]],
        body |-> BytesOf(Member(Member(request, "body"), "raw"))]

\* the postman struct and the error; data that cannot be read to its end
\* or is no JSON text leaves the struct as it was declared
UnmarshalPostman(file) ==
    IF file.t \in {"malformed", "unreadable"}
    THEN [err |-> "SyntaxError", name |-> "", item |-> <<>>]
    ELSE LET item == ElementsOf(Member(file, "item")) IN
         [err |-> IF PostmanMismatch(file) THEN "UnmarshalTypeError" ELSE "nil",
          name |-> StringOf(Member(Member(file, "info"), "name")),
          item |-> [k \in 1..Len(item) |-> UnmarshalPostmanItem(item[k])]]

\* the map built from an item's header list: the last value of a key wins
RECURSIVE ImportHeaders(_, _, _)
ImportHeaders(header, i, m) ==
    IF i > Len(header) THEN m
    ELSE ImportHeaders(header, i + 1, Put(m, header[i].key, header[i].value))

\* the switch over the type of item.Request.URL
ImportURL_StringOnly(url) ==
    IF url.t = "string" THEN url.s ELSE ""

ImportURL(url) ==
    CASE url.t = "string" -> url.s
      [] url.t = "object" -> StringOf(Member(url, "raw"))
      [] OTHER -> ""

ImportRequest(item) ==
    [name |-> item.name,
     method |-> item.method,
     url |-> ImportURL(item.url),
     headers |-> ImportHeaders(item.header, 1, {}),
     body |-> item.body]

ImportCollection(payload) ==
    [name |-> payload.name,
     requests |-> [k \in 1..Len(payload.item) |-> ImportRequest(payload.item[k])]]

\* the loop over the workspaces from number i (1-based) on
RECURSIVE ImportFrom(_, _, _, _)
ImportFrom(i, st, col, results) ==
    IF i > Len(st.wss) THEN st
    ELSE IF st.wss[i].name # workspaceSelected
    THEN ImportFrom(i + 1, st, col, results)
    ELSE LET wss == [st.wss EXCEPT ![i].collections = Append(@, col)] IN
         ImportFrom(i + 1,
              [wss |-> wss,
               disk |-> saveWorkspaces(wss, results[i], st.disk),
               fails |-> st.fails + Failed(results[i]),
               options |-> CollectionOptionsOf(wss[i]),
               idx |-> Len(wss[i].collections) - 1],
              col, results)

\* what json.Unmarshal makes of each file the user may pick, and the
\* collection the loop builds from it
Decoded == [file \in PostmanFiles \cup Payloads |-> UnmarshalPostman(file)]

DecodedCollection ==
    [file \in PostmanFiles \cup Payloads |-> ImportCollection(Decoded[file])]

\* the user picks `file` in the file dialog
importPostmanJSON(file, results) ==
    LET payload == Decoded[file] IN
    /\ RowStep("importPostmanJSON", -1)
    /\ interchange' = file
    /\ UNCHANGED <<workspaceSelected, workspaceOptions, formVars>>
    /\ IF payload.err # "nil"
       THEN /\ message' = "Invalid JSON"
            /\ UNCHANGED <<workspaces, disk, saveFailures, collectionOptions, selectedCollectionIdx>>
       ELSE IF workspaceSelected = ""
       THEN /\ message' = "No Workspace"
            /\ UNCHANGED <<workspaces, disk, saveFailures, collectionOptions, selectedCollectionIdx>>
       ELSE LET st == ImportFrom(1,
                         [wss |-> workspaces, disk |-> disk, fails |-> saveFailures,
                          options |-> collectionOptions,
                          idx |-> selectedCollectionIdx],
                         DecodedCollection[file], results)
            IN /\ message' = ""
               /\ workspaces' = st.wss
               /\ disk' = st.disk
               /\ saveFailures' = st.fails
               /\ st.fails <= MaxSaveFailures
               /\ collectionOptions' = st.options
               /\ selectedCollectionIdx' = st.idx

\* ----------------------------------------------------- exportCollectionJSON
\* the header array of an exported request, for the order o in which the
\* headers map is ranged over
ExportHeaders(o) == [k \in 1..Len(o) |-> PostmanHeader(o[k][1], o[k][2])]

\* one order of the headers of each request of coll
HeaderOrders(coll) ==
    LET All == UNION {Orders(coll.requests[k].headers) : k \in 1..Len(coll.requests)} IN
    {f \in [1..Len(coll.requests) -> All] :
        \A k \in 1..Len(coll.requests) : f[k] \in Orders(coll.requests[k].headers)}

ExportCollection(coll, orders) ==
    PostmanCollection(coll.name,
      [k \in 1..Len(coll.requests) |->
         PostmanItem(coll.requests[k].name,
           PostmanRequest(coll.requests[k].method,
                          JString(coll.requests[k].url),
                          ExportHeaders(orders[k]),
                          coll.requests[k].body))])

\* how the save dialog ends
ExportResults == {"ok", "cancel", "write error"}

exportCollectionJSON(result) ==
    LET wsIdx == FindWorkspace(workspaces, workspaceSelected)
        colIdx == selectedCollectionIdx
    IN
    /\ RowStep("exportCollectionJSON", -1)
    /\ UNCHANGED <<workspaces, disk, saveFailures, selectVars, formVars>>
    /\ IF workspaceSelected = "" \/ selectedCollectionIdx < 0
       THEN message' = "Select" /\ interchange' = NoFile
       ELSE IF wsIdx = -1 \/ colIdx < 0 \/ colIdx >= Len(workspaces[wsIdx + 1].collections)
       THEN message' = "Invalid selection" /\ interchange' = NoFile
       ELSE LET coll == workspaces[wsIdx + 1].collections[colIdx + 1] IN
            CASE result = "ok" ->
                   /\ message' = ""
                   /\ \E orders \in HeaderOrders(coll) :
                         interchange' = ExportCollection(coll, orders)
              [] result = "cancel" -> message' = "" /\ interchange' = NoFile
              [] OTHER -> message' = "Write error" /\ interchange' = Truncated

\* ------------------------------------------------------------- saveReqBtn
saveReqTapped_AllMatches(result) ==
    LET req == [name |-> urlEntry, method |-> methodSelected, url |-> urlEntry,
                headers |-> FlattenHeaders(parseHeaders(headersEntry)), body |-> bodyEntry]
        hit(i) == /\ workspaces[i].name = workspaceSelected
                  /\ selectedCollectionIdx >= 0
                  /\ selectedCollectionIdx < Len(workspaces[i].collections)
        wss == [i \in 1..Len(workspaces) |->
                  IF hit(i)
                  THEN [workspaces[i] EXCEPT
                          !.collections[selectedCollectionIdx + 1].requests = Append(@, req)]
                  ELSE workspaces[i]]
    IN /\ StoreStep("saveReq")
       /\ UNCHANGED <<selectVars, formVars>>
       /\ workspaces' = wss
       /\ disk' = saveWorkspaces(wss, result, disk)
       /\ saveFailures' = saveFailures + Failed(result)
       /\ saveFailures' <= MaxSaveFailures
       /\ message' = IF result = "ok" THEN "Saved" ELSE "write error"

saveReqTapped(result) ==
    LET wsIdx == FindWorkspace(workspaces, workspaceSelected) IN
    /\ StoreStep("saveReq")
    /\ UNCHANGED <<selectVars, formVars>>
    /\ IF workspaceSelected = "" \/ workspaceSelected = NewWorkspaceOption
       THEN message' = "No Workspace" /\ UNCHANGED <<workspaces, disk, saveFailures>>
       ELSE IF selectedCollectionIdx < 0
       THEN message' = "No Collection" /\ UNCHANGED <<workspaces, disk, saveFailures>>
       ELSE IF wsIdx = -1
       THEN message' = "Workspace not found" /\ UNCHANGED <<workspaces, disk, saveFailures>>
       ELSE IF selectedCollectionIdx >= Len(workspaces[wsIdx + 1].collections)
       THEN message' = "No Collection Selected" /\ UNCHANGED <<workspaces, disk, saveFailures>>
       ELSE LET req == [name |-> urlEntry,
                        method |-> methodSelected,
                        url |-> urlEntry,
                        headers |-> FlattenHeaders(parseHeaders(headersEntry)),
                        body |-> bodyEntry]
                wss == [workspaces EXCEPT
                          ![wsIdx + 1].collections[selectedCollectionIdx + 1].requests =
                              Append(@, req)]
            IN /\ workspaces' = wss
               /\ disk' = saveWorkspaces(wss, result, disk)
               /\ saveFailures' = saveFailures + Failed(result)
               /\ saveFailures' <= MaxSaveFailures
               /\ message' = IF result = "ok" THEN "Saved" ELSE "write error"

\* ------------------------------------------------------------- loadReqBtn
\* methodSelect.SetSelected(text): taken only when text is one of the options
methodSetSelected(current, text) == IF text \in Methods THEN text ELSE current

\* the callback of the pick dropdown: the loop over coll.Requests from
\* request number i (1-based) on, over form = [method, url, body, last];
\* last is the number of the request whose headers were written last
RECURSIVE PickFrom(_, _, _, _)
PickFrom(requests, i, sel, form) ==
    IF i > Len(requests) THEN form
    ELSE IF requests[i].name # sel THEN PickFrom(requests, i + 1, sel, form)
    ELSE PickFrom(requests, i + 1, sel,
                  [method |-> methodSetSelected(form.method, requests[i].method),
                   url |-> requests[i].url,
                   body |-> requests[i].body,
                   last |-> i])

\* the user presses Load Request and picks entry number k of the dropdown
loadReqTapped(k) ==
    LET wsIdx == FindWorkspace(workspaces, workspaceSelected)
        colIdx == selectedCollectionIdx
    IN
    /\ StoreStep("loadReq")
    /\ UNCHANGED <<workspaces, disk, saveFailures, selectVars>>
    /\ IF workspaceSelected = "" \/ selectedCollectionIdx < 0
       THEN message' = "Select" /\ UNCHANGED formVars
       ELSE IF wsIdx = -1 \/ colIdx < 0 \/ colIdx >= Len(workspaces[wsIdx + 1].collections)
       THEN message' = "Invalid selection" /\ UNCHANGED formVars
       ELSE LET coll == workspaces[wsIdx + 1].collections[colIdx + 1] IN
            IF Len(coll.requests) = 0
            THEN message' = "No Requests" /\ UNCHANGED formVars
            ELSE /\ k \in 1..Len(coll.requests)
                 /\ message' = "Pick Request"
                 /\ LET form == PickFrom(coll.requests, 1, coll.requests[k].name,
                                         [method |-> methodSelected, url |-> urlEntry,
                                          body |-> bodyEntry, last |-> 0])
                    IN /\ methodSelected' = form.method
                       /\ urlEntry' = form.url
                       /\ bodyEntry' = form.body
                       /\ \E o \in Orders(coll.requests[form.last].headers) :
                              headersEntry' = HeaderText(o)

\* ---------------------------------------------------------------- the form
\* the user fills in the request form
editForm(f) ==
    /\ StoreStep("editForm")
    /\ methodSelected' = f.method
    /\ urlEntry' = f.url
    /\ headersEntry' = f.headers
    /\ bodyEntry' = f.body
    /\ message' = ""
    /\ UNCHANGED <<workspaces, disk, saveFailures, selectVars>>

\* ------------------------------------------------ editRequestName, deleteRequest
\* names the user may type into the rename form
RequestNames == {"r"}

\* the guards both handlers start with: the collection the row belongs to,
\* or "none" when the handler returns before it shows a dialog
TargetOf_NoRowCheck(reqIdx) ==
    LET wsIdx == FindWorkspace(workspaces, workspaceSelected) IN
    IF workspaceSelected = "" \/ workspaceSelected = NewWorkspaceOption
         \/ selectedCollectionIdx < 0
    THEN "none"
    ELSE IF wsIdx = -1 \/ selectedCollectionIdx >= Len(workspaces[wsIdx + 1].collections)
    THEN "none"
    ELSE <<wsIdx + 1, selectedCollectionIdx + 1>>

TargetOf(reqIdx) ==
    LET wsIdx == FindWorkspace(workspaces, workspaceSelected) IN
    IF workspaceSelected = "" \/ workspaceSelected = NewWorkspaceOption
         \/ selectedCollectionIdx < 0
    THEN "none"
    ELSE IF wsIdx = -1 \/ selectedCollectionIdx >= Len(workspaces[wsIdx + 1].collections)
    THEN "none"
    ELSE IF reqIdx >= Len(workspaces[wsIdx + 1].collections[selectedCollectionIdx + 1].requests)
    THEN "none"
    ELSE <<wsIdx + 1, selectedCollectionIdx + 1>>

\* append(s[:i], s[i+1:]...), i 0-based
RemoveAt_SwapLast(requests, i) ==
    SubSeq([requests EXCEPT ![i + 1] = requests[Len(requests)]], 1, Len(requests) - 1)

RemoveAt(requests, i) ==
    SubSeq(requests, 1, i) \o SubSeq(requests, i + 2, Len(requests))

\* the user taps the edit button of row reqIdx and closes the form
editRequestName(reqIdx, ok, text, result) ==
    LET t == TargetOf(reqIdx) IN
    /\ RowStep("editRequestName", reqIdx)
    /\ interchange' = NoFile
    /\ UNCHANGED <<selectVars, formVars>>
    /\ IF t = "none"
       THEN /\ message' = ""
            /\ UNCHANGED <<workspaces, disk, saveFailures>>
       ELSE /\ message' = IF ok THEN "Edit Request Name: Save" ELSE "Edit Request Name: Cancel"
            /\ IF ~ok \/ text = ""
               THEN UNCHANGED <<workspaces, disk, saveFailures>>
               ELSE LET wss == [workspaces EXCEPT
                                  ![t[1]].collections[t[2]].requests[reqIdx + 1].name = text]
                    IN /\ workspaces' = wss
                       /\ disk' = saveWorkspaces(wss, result, disk)
                       /\ saveFailures' = saveFailures + Failed(result)
                       /\ saveFailures' <= MaxSaveFailures

\* the user taps the delete button of row reqIdx and answers the question
deleteRequest_NoSave(reqIdx, confirmed, result) ==
    LET t == TargetOf(reqIdx) IN
    /\ RowStep("deleteRequest", reqIdx)
    /\ interchange' = NoFile
    /\ UNCHANGED <<selectVars, formVars>>
    /\ IF t = "none"
       THEN /\ message' = ""
            /\ UNCHANGED <<workspaces, disk, saveFailures>>
       ELSE /\ message' = IF confirmed THEN "Delete Request: Yes" ELSE "Delete Request: No"
            /\ IF ~confirmed
               THEN UNCHANGED <<workspaces, disk, saveFailures>>
               ELSE /\ workspaces' = [workspaces EXCEPT
                          ![t[1]].collections[t[2]].requests = RemoveAt(@, reqIdx)]
                    /\ UNCHANGED <<disk, saveFailures>>

deleteRequest(reqIdx, confirmed, result) ==
    LET t == TargetOf(reqIdx) IN
    /\ RowStep("deleteRequest", reqIdx)
    /\ interchange' = NoFile
    /\ UNCHANGED <<selectVars, formVars>>
    /\ IF t = "none"
       THEN /\ message' = ""
            /\ UNCHANGED <<workspaces, disk, saveFailures>>
       ELSE /\ message' = IF confirmed THEN "Delete Request: Yes" ELSE "Delete Request: No"
            /\ IF ~confirmed
               THEN UNCHANGED <<workspaces, disk, saveFailures>>
               ELSE LET wss == [workspaces EXCEPT
                                  ![t[1]].collections[t[2]].requests = RemoveAt(@, reqIdx)]
                    IN /\ workspaces' = wss
                       /\ disk' = saveWorkspaces(wss, result, disk)
                       /\ saveFailures' = saveFailures + Failed(result)
                       /\ saveFailures' <= MaxSaveFailures

\* ------------------------------------------ the dialogs of a request, in two steps
\* no request dialog is open
NoDialog == [kind |-> "none", ws |-> 0, coll |-> 0, reqIdx |-> 0, name |-> ""]

\* coll.Requests as the callback of the open dialog finds it: coll points at
\* the collection the guards picked
PendingRequests == workspaces[pending.ws].collections[pending.coll].requests

\* a step of a request dialog
DialogStep(op, row) ==
    /\ ~crashed
    /\ crashed' = FALSE
    /\ lastOp' = op
    /\ tappedRow' = row
    /\ interchange' = NoFile
    /\ UNCHANGED <<searchVars, loadErr, sendVars, viewVars, selectVars, formVars>>

\* editRequestName(reqIdx) or deleteRequest(reqIdx) up to the dialog it shows:
\* the closure keeps coll and reqIdx
openDialog(kind, reqIdx) ==
    LET t == TargetOf(reqIdx) IN
    /\ pending = NoDialog
    /\ DialogStep(kind, reqIdx)
    /\ UNCHANGED <<workspaces, disk, saveFailures>>
    /\ IF t = "none"
       THEN message' = "" /\ pending' = NoDialog
       ELSE LET r == workspaces[t[1]].collections[t[2]].requests[reqIdx + 1] IN
            /\ message' = IF kind = "delete" THEN "Delete Request" ELSE "Edit Request Name"
            /\ pending' = [kind |-> kind, ws |-> t[1], coll |-> t[2],
                           reqIdx |-> reqIdx, name |-> r.name]

\* the callback of the form of editRequestName
editCallback(ok, text, result) ==
    /\ pending.kind = "edit"
    /\ IF ok /\ text # "" /\ pending.reqIdx >= Len(PendingRequests)
       THEN Crash("editCallback")
       ELSE /\ DialogStep("editCallback", pending.reqIdx)
            /\ pending' = NoDialog
            /\ message' = ""
            /\ IF ~ok \/ text = ""
               THEN UNCHANGED <<workspaces, disk, saveFailures>>
               ELSE LET wss == [workspaces EXCEPT
                          ![pending.ws].collections[pending.coll]
                              .requests[pending.reqIdx + 1].name = text]
                    IN /\ workspaces' = wss
                       /\ disk' = saveWorkspaces(wss, result, disk)
                       /\ saveFailures' = saveFailures + Failed(result)
                       /\ saveFailures' <= MaxSaveFailures

\* the callback of the question of deleteRequest; coll.Requests[reqIdx+1:]
\* panics when reqIdx+1 is beyond the length
deleteCallback(confirmed, result) ==
    /\ pending.kind = "delete"
    /\ IF confirmed /\ pending.reqIdx + 1 > Len(PendingRequests)
       THEN Crash("deleteCallback")
       ELSE /\ DialogStep("deleteCallback", pending.reqIdx)
            /\ pending' = NoDialog
            /\ message' = ""
            /\ IF ~confirmed
               THEN UNCHANGED <<workspaces, disk, saveFailures>>
               ELSE LET wss == [workspaces EXCEPT
                          ![pending.ws].collections[pending.coll].requests =
                              RemoveAt(@, pending.reqIdx)]
                    IN /\ workspaces' = wss
                       /\ disk' = saveWorkspaces(wss, result, disk)
                       /\ saveFailures' = saveFailures + Failed(result)
                       /\ saveFailures' <= MaxSaveFailures

\* ------------------------------------------------------------------- main
\* what main sets up from the file it finds: the list (the error is dropped),
\* the workspace dropdown with the first workspace selected, and the
\* collection dropdown of that workspace
main(file) ==
    LET l == loadWorkspaces(file)
        names == WorkspaceOptionsOf(l.workspaces)
        sel == IF Len(names) > 1 THEN names[2] ELSE ""
        r == workspaceOnChanged(l.workspaces, sel)
    IN [workspaces |-> l.workspaces,
        loadErr |-> l.err,
        workspaceOptions |-> names,
        workspaceSelected |-> sel,
        collectionOptions |-> IF sel = "" THEN <<NewCollectionOption>> ELSE r.options,
        selectedCollectionIdx |-> IF sel = "" THEN -1 ELSE r.idx]

\* the state of a process that found `file`, with `text` in the headers box
StartedTyped(file, text) ==
    LET m == main(file) IN
    /\ jsonResponse = <<>>
    /\ searchEntry = <<>>
    /\ currentSearchQuery = <<>>
    /\ searchResults = <<>>
    /\ currentMatchIndex = -1
    /\ originalText = <<>>
    /\ navEnabled = TRUE
    /\ crashed = FALSE
    /\ respText = <<>>
    /\ workspaces = m.workspaces
    /\ loadErr = m.loadErr
    /\ disk = file
    /\ workspaceSelected = m.workspaceSelected
    /\ workspaceOptions = m.workspaceOptions
    /\ collectionOptions = m.collectionOptions
    /\ selectedCollectionIdx = m.selectedCollectionIdx
    /\ methodSelected = "GET"
    /\ urlEntry = ""
    /\ headersEntry = text
    /\ bodyEntry = <<>>
    /\ message = ""
    /\ tappedRow = -1
    /\ sentHeaders = {}
    /\ sentBody = NoBody
    /\ reqSize = 0
    /\ headersBox = <<>>
    /\ responseMeta = NoMeta
    /\ statusColor = Black
    /\ responseStatus = NoStatus
    /\ interchange = NoFile
    /\ pending = NoDialog

\* the state of a process that found `file`
Started(file) == StartedTyped(file, <<>>)

\* the user closes the program and starts it again: main runs on the file
\* the last run left
restart ==
    LET m == main(disk) IN
    /\ jsonResponse' = <<>>
    /\ searchEntry' = <<>>
    /\ currentSearchQuery' = <<>>
    /\ searchResults' = <<>>
    /\ currentMatchIndex' = -1
    /\ originalText' = <<>>
    /\ navEnabled' = TRUE
    /\ crashed' = FALSE
    /\ respText' = <<>>
    /\ workspaces' = m.workspaces
    /\ loadErr' = m.loadErr
    /\ disk' = disk
    /\ workspaceSelected' = m.workspaceSelected
    /\ workspaceOptions' = m.workspaceOptions
    /\ collectionOptions' = m.collectionOptions
    /\ selectedCollectionIdx' = m.selectedCollectionIdx
    /\ methodSelected' = "GET"
    /\ urlEntry' = ""
    /\ headersEntry' = <<>>
    /\ bodyEntry' = <<>>
    /\ message' = ""
    /\ tappedRow' = -1
    /\ sentHeaders' = {}
    /\ sentBody' = NoBody
    /\ reqSize' = 0
    /\ headersBox' = <<>>
    /\ responseMeta' = NoMeta
    /\ statusColor' = Black
    /\ responseStatus' = NoStatus
    /\ interchange' = NoFile
    /\ pending' = NoDialog
    /\ lastOp' = "restart"
    /\ UNCHANGED saveFailures

\* ------------------------------------------------------------ specification
\* the first start: there is no file yet
Init ==
    /\ Started(NoFile)
    /\ lastOp = "init"
    /\ saveFailures = 0

Next ==
    \/ \E typed \in Queries : searchAction(typed)
    \/ prevTapped
    \/ nextTapped
    \/ clearTapped
    \/ \E expr \in ExprKinds : jsonataTapped(expr)
    \/ \E outcome \in SendOutcomes : sendTapped(outcome)

Spec == Init /\ [][Next]_vars

\* the workspace store and the request form, while every save succeeds
\* the results of the saves of one loop over the workspaces, all "ok"
AllSaved == [i \in 1..Len(workspaces) |-> "ok"]

\* how the saves of one loop over the workspaces may end: one result for
\* every workspace the loop saves for
SaveResultSeqs ==
    {r \in [1..Len(workspaces) -> SaveResults] :
        \A i \in 1..Len(workspaces) :
            workspaces[i].name # workspaceSelected => r[i] = "ok"}

\* the requests of the collection the request list shows, none when the
\* selection names no collection
ShownRequests ==
    LET t == TargetOf(-1) IN
    IF t = "none" THEN <<>> ELSE workspaces[t[1]].collections[t[2]].requests

\* rows of the request list the user may tap: the rows of the shown
\* collection and one row the list still shows after a delete it did not
\* refresh for
Rows == 0..Len(ShownRequests)

StoreNext ==
    \/ \E i \in 1..Len(workspaceOptions) : selectWorkspace(i)
    \/ \E ok \in BOOLEAN, text \in WorkspaceNames \cup {""} :
          createNewWorkspace(ok, text, "ok") /\ WithinBounds(workspaces')
    \/ \E i \in 1..Len(collectionOptions) : selectCollection(i)
    \/ \E ok \in BOOLEAN, text \in CollectionNames \cup {""} :
          createNewCollection(ok, text, AllSaved) /\ WithinBounds(workspaces')
    \/ \E payload \in Payloads :
          importPostmanJSON(payload, AllSaved) /\ WithinBounds(workspaces')
    \/ saveReqTapped("ok") /\ WithinBounds(workspaces')
    \/ \E k \in 1..(Len(ShownRequests) + 1) : loadReqTapped(k)
    \/ \E f \in Forms : editForm(f)
    \/ \E reqIdx \in Rows, ok \in BOOLEAN, text \in RequestNames \cup {""} :
          editRequestName(reqIdx, ok, text, "ok")
    \/ \E reqIdx \in Rows, confirmed \in BOOLEAN : deleteRequest(reqIdx, confirmed, "ok")
    \/ restart

StoreSpec == Init /\ [][StoreNext]_vars

\* ------------------------------------------------------------------------
\* the requests of collections, with workspaces of one name and requests that
\* differ: every dialog is confirmed and every save succeeds
MaxRequestStoreSize == 6

RequestNext ==
    \/ \E i \in 1..Len(workspaceOptions) : selectWorkspace(i)
    \/ createNewWorkspace(TRUE, "A", "ok") /\ StoreSize(workspaces') <= MaxRequestStoreSize
    \/ \E i \in 1..Len(collectionOptions) : selectCollection(i)
    \/ \E text \in CollectionNames :
          createNewCollection(TRUE, text, AllSaved)
            /\ StoreSize(workspaces') <= MaxRequestStoreSize
    \/ importPostmanJSON(FlatFile, AllSaved) /\ StoreSize(workspaces') <= MaxRequestStoreSize
    \/ saveReqTapped("ok") /\ StoreSize(workspaces') <= MaxRequestStoreSize
    \/ \E f \in Forms : editForm(f)
    \/ \E reqIdx \in Rows, text \in RequestNames : editRequestName(reqIdx, TRUE, text, "ok")
    \/ \E reqIdx \in Rows : deleteRequest(reqIdx, TRUE, "ok")

RequestSpec == Init /\ [][RequestNext]_vars

\* ------------------------------------------------------------------------
\* saves that fail and files main cannot read, on a small store
MaxFaultStoreSize == 3

\* a file that is JSON but no list of workspaces
WrongShape == JObject({})

\* the files a starting process may find
InitialFiles == {NoFile, Unreadable, Truncated, WrongShape, JNull}

FaultInit ==
    /\ \E file \in InitialFiles : Started(file)
    /\ lastOp = "init"
    /\ saveFailures = 0

FaultNext ==
    \/ \E i \in 1..Len(workspaceOptions) : selectWorkspace(i)
    \/ \E text \in WorkspaceNames, result \in SaveResults :
          createNewWorkspace(TRUE, text, result)
            /\ StoreSize(workspaces') <= MaxFaultStoreSize
    \/ \E i \in 1..Len(collectionOptions) : selectCollection(i)
    \/ \E text \in CollectionNames, results \in SaveResultSeqs :
          createNewCollection(TRUE, text, results)
            /\ StoreSize(workspaces') <= MaxFaultStoreSize
    \/ \E payload \in Payloads, results \in SaveResultSeqs :
          importPostmanJSON(payload, results)
            /\ StoreSize(workspaces') <= MaxFaultStoreSize
    \/ \E result \in SaveResults :
          saveReqTapped(result) /\ StoreSize(workspaces') <= MaxFaultStoreSize
    \/ \E f \in Forms : editForm(f)
    \/ \E reqIdx \in Rows, text \in RequestNames, result \in SaveResults :
          editRequestName(reqIdx, TRUE, text, result)
    \/ \E reqIdx \in Rows, result \in SaveResults : deleteRequest(reqIdx, TRUE, result)
    \/ restart

FaultSpec == FaultInit /\ [][FaultNext]_vars

\* ------------------------------------------------------------------------
\* the first UI (src/main.go): a workspace dropdown without a callback, a
\* list of the collections of the selected workspace, and three buttons
MaxLegacyStoreSize == 5

LegacyWorkspaceNames == {"A", "B"}

LegacyInit ==
    /\ jsonResponse = <<>>
    /\ searchEntry = <<>>
    /\ currentSearchQuery = <<>>
    /\ searchResults = <<>>
    /\ currentMatchIndex = -1
    /\ originalText = <<>>
    /\ navEnabled = TRUE
    /\ crashed = FALSE
    /\ respText = <<>>
    /\ workspaces = loadWorkspaces(NoFile).workspaces
    /\ loadErr = loadWorkspaces(NoFile).err
    /\ disk = NoFile
    /\ workspaceSelected = ""
    /\ workspaceOptions = <<>>
    /\ collectionOptions = <<>>
    /\ selectedCollectionIdx = -1
    /\ methodSelected = "GET"
    /\ urlEntry = ""
    /\ headersEntry = <<>>
    /\ bodyEntry = <<>>
    /\ message = ""
    /\ tappedRow = -1
    /\ sentHeaders = {}
    /\ sentBody = NoBody
    /\ reqSize = 0
    /\ headersBox = <<>>
    /\ responseMeta = NoMeta
    /\ statusColor = Black
    /\ responseStatus = NoStatus
    /\ interchange = NoFile
    /\ pending = NoDialog
    /\ lastOp = "init"
    /\ saveFailures = 0

\* the user picks entry number i of the workspace dropdown
workspaceSelectPicked(i) ==
    /\ StoreStep("selectWorkspace")
    /\ workspaceSelected' = workspaceOptions[i]
    /\ message' = ""
    /\ UNCHANGED <<workspaces, disk, saveFailures, workspaceOptions, collectionOptions,
                   selectedCollectionIdx, formVars>>

\* collectionList.Length()
collectionListLength ==
    LET w == FindWorkspace(workspaces, workspaceSelected) IN
    IF workspaceSelected = "" \/ w = -1 THEN 0 ELSE Len(workspaces[w + 1].collections)

\* collectionList.OnSelected: the user taps row id of the list
collectionListOnSelected(id) ==
    /\ StoreStep("selectCollection")
    /\ id < collectionListLength
    /\ selectedCollectionIdx' = id
    /\ message' = ""
    /\ UNCHANGED <<workspaces, disk, saveFailures, workspaceSelected, workspaceOptions,
                   collectionOptions, formVars>>

addWorkspaceBtn(name, result) ==
    /\ StoreStep("createNewWorkspace")
    /\ message' = ""
    /\ UNCHANGED <<collectionOptions, selectedCollectionIdx, formVars>>
    /\ IF name = ""
       THEN UNCHANGED <<workspaces, disk, saveFailures, workspaceOptions, workspaceSelected>>
       ELSE LET wss == Append(workspaces, [name |-> name, collections |-> <<>>]) IN
            /\ workspaces' = wss
            /\ disk' = saveWorkspaces(wss, result, disk)
            /\ saveFailures' = saveFailures + Failed(result)
            /\ saveFailures' <= MaxSaveFailures
            /\ IF result = "ok"
               THEN /\ workspaceOptions' = Append(workspaceOptions, name)
                    /\ workspaceSelected' = name
               ELSE UNCHANGED <<workspaceOptions, workspaceSelected>>

\* the loop of addCollectionBtn from workspace number i (1-based) on, over
\* st = [wss, disk, fails]
RECURSIVE addCollectionLoop(_, _, _, _)
addCollectionLoop(i, st, name, results) ==
    IF i > Len(st.wss) THEN st
    ELSE IF st.wss[i].name # workspaceSelected
    THEN addCollectionLoop(i + 1, st, name, results)
    ELSE LET wss == [st.wss EXCEPT ![i].collections =
                        Append(@, [name |-> name, requests |-> <<>>])]
         IN addCollectionLoop(i + 1,
              [wss |-> wss,
               disk |-> saveWorkspaces(wss, results[i], st.disk),
               fails |-> st.fails + Failed(results[i])],
              name, results)

addCollectionBtn(name, results) ==
    /\ StoreStep("createNewCollection")
    /\ UNCHANGED <<selectVars, formVars>>
    /\ IF workspaceSelected = ""
       THEN /\ message' = "No Workspace"
            /\ UNCHANGED <<workspaces, disk, saveFailures>>
       ELSE /\ message' = ""
            /\ IF name = ""
               THEN UNCHANGED <<workspaces, disk, saveFailures>>
               ELSE LET st == addCollectionLoop(1, [wss |-> workspaces, disk |-> disk,
                                                    fails |-> saveFailures], name, results)
                    IN /\ workspaces' = st.wss
                       /\ disk' = st.disk
                       /\ saveFailures' = st.fails
                       /\ st.fails <= MaxSaveFailures

\* Save Request of src/main.go and of src/unnamed/part_000: the selected
\* index is used on the collections of the selected workspace without a
\* check against their number
saveReqBtn(result) ==
    LET wsIdx == FindWorkspace(workspaces, workspaceSelected)
        colIdx == selectedCollectionIdx
        stop(text) == /\ StoreStep("saveReq")
                      /\ message' = text
                      /\ UNCHANGED <<workspaces, disk, saveFailures, selectVars, formVars>>
    IN
    IF workspaceSelected = "" THEN stop("No Workspace")
    ELSE IF collectionListLength = 0 THEN stop("No Collection")
    ELSE IF wsIdx = -1 THEN stop("Workspace not found")
    ELSE IF selectedCollectionIdx < 0 THEN stop("No Collection Selected")
    ELSE IF colIdx >= Len(workspaces[wsIdx + 1].collections)
    THEN ~crashed /\ Crash("saveReq")
    ELSE LET req == [name |-> urlEntry,
                     method |-> methodSelected,
                     url |-> urlEntry,
                     headers |-> FlattenHeaders(parseHeaders(headersEntry)),
                     body |-> bodyEntry]
             wss == [workspaces EXCEPT
                       ![wsIdx + 1].collections[colIdx + 1].requests = Append(@, req)]
         IN /\ StoreStep("saveReq")
            /\ UNCHANGED <<selectVars, formVars>>
            /\ workspaces' = wss
            /\ disk' = saveWorkspaces(wss, result, disk)
            /\ saveFailures' = saveFailures + Failed(result)
            /\ saveFailures' <= MaxSaveFailures
            /\ message' = IF result = "ok" THEN "Saved" ELSE "write error"

\* importBtn: the error of json.Unmarshal is not looked at
RECURSIVE importLoop(_, _, _, _)
importLoop(i, st, col, results) ==
    IF i > Len(st.wss) THEN st
    ELSE IF st.wss[i].name # workspaceSelected
    THEN importLoop(i + 1, st, col, results)
    ELSE LET wss == [st.wss EXCEPT ![i].collections = Append(@, col)] IN
         importLoop(i + 1,
              [wss |-> wss,
               disk |-> saveWorkspaces(wss, results[i], st.disk),
               fails |-> st.fails + Failed(results[i])],
              col, results)

importBtn(file, results) ==
    LET payload == Decoded[file] IN
    /\ RowStep("importPostmanJSON", -1)
    /\ interchange' = file
    /\ UNCHANGED <<selectVars, formVars>>
    /\ IF workspaceSelected = ""
       THEN /\ message' = "No Workspace"
            /\ UNCHANGED <<workspaces, disk, saveFailures>>
       ELSE LET st == importLoop(1, [wss |-> workspaces, disk |-> disk,
                                     fails |-> saveFailures],
                                 DecodedCollection[file], results)
            IN /\ message' = ""
               /\ workspaces' = st.wss
               /\ disk' = st.disk
               /\ saveFailures' = st.fails
               /\ st.fails <= MaxSaveFailures

LegacyNext ==
    \/ \E i \in 1..Len(workspaceOptions) : workspaceSelectPicked(i)
    \/ \E id \in 0..MaxLegacyStoreSize : collectionListOnSelected(id)
    \/ \E name \in LegacyWorkspaceNames \cup {""} :
          addWorkspaceBtn(name, "ok") /\ StoreSize(workspaces') <= MaxLegacyStoreSize
    \/ \E name \in CollectionNames \cup {""} :
          addCollectionBtn(name, AllSaved) /\ StoreSize(workspaces') <= MaxLegacyStoreSize
    \/ \E f \in Forms : editForm(f)
    \/ saveReqBtn("ok") /\ StoreSize(workspaces') <= MaxLegacyStoreSize
    \/ \E file \in {Truncated, SparseFile} :
          importBtn(file, AllSaved) /\ StoreSize(workspaces') <= MaxLegacyStoreSize

LegacySpec == LegacyInit /\ [][LegacyNext]_vars

\* ------------------------------------------------------------------------
\* header texts, typed and sent
MaxHeaderLines == 2

\* lines the user may type into the headers box
HeaderLines ==
    { <<>>, <<SP>>, <<"k">>,
      <<"a", CO, "1">>,
      <<"A", CO, SP, "2", SP>>,
      <<SP, "a", "-", "b", SP, CO, "1">>,
      <<"a", CO, "1", CO, "2">>,
      <<CO, "1">>,
      <<"k", CO>>,
      <<"b", SP, "b", CO, "2">> }

\* the lines of ls, each but the last followed by a newline
RECURSIVE JoinLines(_)
JoinLines(ls) ==
    IF Len(ls) = 0 THEN <<>>
    ELSE IF Len(ls) = 1 THEN ls[1]
    ELSE ls[1] \o <<NL>> \o JoinLines(Tail(ls))

HeaderTexts ==
    UNION {{JoinLines(ls) : ls \in [1..n -> HeaderLines]} : n \in 1..MaxHeaderLines}

\* the sends of the header runs: the headers are parsed before the request
\* is built, so the outcome of the exchange has no part in them
ParseOutcomes == {[kind |-> "transport"], Response(<<>>, 200)}

\* a header text has been typed into headersEntry
ParseInit ==
    /\ \E text \in HeaderTexts : StartedTyped(NoFile, text)
    /\ lastOp = "init"
    /\ saveFailures = 0

ParseNext == \E outcome \in ParseOutcomes : sendTapped(outcome)

ParseSpec == ParseInit /\ [][ParseNext]_vars

\* ------------------------------------------------------------------------
\* a request dialog stays open while other handlers of the store run: the
\* handlers are callbacks that nothing in the program holds back
MaxDialogStoreSize == 6

StoredRequest(name) ==
    [name |-> name, method |-> "GET", url |-> name, headers |-> {}, body |-> <<>>]

\* the file an earlier run left: one collection with three requests
DialogFile ==
    MarshalIndent(<< [name |-> "A",
                      collections |-> << [name |-> "c",
                                          requests |-> << StoredRequest("p"),
                                                          StoredRequest("q"),
                                                          StoredRequest("s") >>] >>] >>)

DialogInit ==
    /\ Started(DialogFile)
    /\ lastOp = "init"
    /\ saveFailures = 0

DialogNext ==
    \/ \E i \in 1..Len(collectionOptions) : selectCollection(i)
    \/ \E kind \in {"edit", "delete"}, reqIdx \in Rows : openDialog(kind, reqIdx)
    \/ \E ok \in BOOLEAN, text \in RequestNames : editCallback(ok, text, "ok")
    \/ \E confirmed \in BOOLEAN : deleteCallback(confirmed, "ok")
    \/ \E reqIdx \in Rows : deleteRequest(reqIdx, TRUE, "ok")
    \/ saveReqTapped("ok") /\ StoreSize(workspaces') <= MaxDialogStoreSize

DialogSpec == DialogInit /\ [][DialogNext]_vars

\* ------------------------------------------------------------------------
\* starts on a file that cannot be loaded, and the store handlers after them
MaxStartupStoreSize == 4

\* a list of a workspace and a number
MixedFile ==
    JArray(<<MarshalWorkspace([name |-> "A", collections |-> <<>>]), JNumber(7)>>)

BrokenFiles == {Unreadable, Truncated, WrongShape, MixedFile}

StartupInit ==
    /\ \E file \in BrokenFiles : Started(file)
    /\ lastOp = "init"
    /\ saveFailures = 0

StartupNext ==
    \/ \E i \in 1..Len(workspaceOptions) : selectWorkspace(i)
    \/ \E result \in {"ok", "fail"} :
          createNewWorkspace(TRUE, "A", result)
            /\ StoreSize(workspaces') <= MaxStartupStoreSize
    \/ \E i \in 1..Len(collectionOptions) : selectCollection(i)
    \/ \E text \in CollectionNames :
          createNewCollection(TRUE, text, AllSaved)
            /\ StoreSize(workspaces') <= MaxStartupStoreSize
    \/ \E result \in {"ok", "fail"} :
          saveReqTapped(result) /\ StoreSize(workspaces') <= MaxStartupStoreSize
    \/ \E reqIdx \in Rows : deleteRequest(reqIdx, TRUE, "ok")
    \/ restart

StartupSpec == StartupInit /\ [][StartupNext]_vars

\* ------------------------------------------------------------------------
\* the request form and the send button
SendForms ==
    {[method |-> m, url |-> "u", headers |-> <<>>, body |-> b] :
        m \in Methods, b \in {<<>>, <<"x">>, <<"x", "y">>}}

\* answers with every class of status
ExchangeOutcomes ==
    {[kind |-> "build"], [kind |-> "transport"]}
      \cup {[kind |-> "read", body |-> <<"k">>, status |-> c, header |-> ResponseHeader] :
              c \in StatusCodes}
      \cup {Response(b, c) : b \in {<<>>, <<"k", "k", "k", "k">>}, c \in StatusCodes}

SendNext ==
    \/ \E f \in SendForms : editForm(f)
    \/ \E outcome \in ExchangeOutcomes : sendTapped(outcome)

SendSpec == Init /\ [][SendNext]_vars

\* ------------------------------------------------------------------------
\* import and export of Postman files
MaxImportWorkspaces == 2
MaxImportCollections == 2

ImportNext ==
    \/ \E i \in 1..Len(workspaceOptions) : selectWorkspace(i)
    \/ createNewWorkspace(TRUE, "A", "ok") /\ Len(workspaces') <= MaxImportWorkspaces
    \/ \E i \in 1..Len(collectionOptions) : selectCollection(i)
    \/ \E file \in PostmanFiles :
          importPostmanJSON(file, AllSaved)
            /\ NumCollections(workspaces') <= MaxImportCollections
    \/ \E result \in ExportResults : exportCollectionJSON(result)

ImportSpec == Init /\ [][ImportNext]_vars

TypeOK ==
    /\ crashed \in BOOLEAN
    /\ navEnabled \in BOOLEAN
    /\ currentMatchIndex \in -1..Len(searchResults)


\* ================================================================== claims
\* what the search specification is meant to compute, stated on the bytes of
\* the text itself (not on its lower-cased copy)

\* the bytes of text at offset p spell query, case-insensitively
IsOccurrence(text, query, p) ==
    /\ p + Len(query) <= Len(text)
    /\ ToLower(Slice(text, p, p + Len(query))) = ToLower(query)

\* leftmost-first, non-overlapping occurrences of query in text from `start`
RECURSIVE OccurrencesFrom(_, _, _)
OccurrencesFrom(text, query, start) ==
    LET S == {p \in start..(Len(text) - Len(query)) : IsOccurrence(text, query, p)} IN
    IF S = {} THEN <<>>
    ELSE <<Min(S)>> \o OccurrencesFrom(text, query, Min(S) + Len(query))

Occurrences(text, query) == OccurrencesFrom(text, query, 0)

\* text with every listed match wrapped, the one numbered cur as current
RECURSIVE WrappedFrom(_, _, _, _, _, _)
WrappedFrom(text, qlen, offs, i, cur, pos) ==
    IF i >= Len(offs) THEN Slice(text, pos, Len(text))
    ELSE Slice(text, pos, offs[i + 1])
           \o Highlighted(Slice(text, offs[i + 1], offs[i + 1] + qlen), i, cur)
           \o WrappedFrom(text, qlen, offs, i + 1, cur, offs[i + 1] + qlen)

Wrapped(text, query, cur) ==
    WrappedFrom(text, Len(query), Occurrences(text, query), 0, cur, 0)

\* C1: a held originalText is the unannotated response body, never a text
\* that a re-render annotated.
C1_OriginalIsResponse ==
    originalText # <<>> => originalText = respText

\* C2: with a non-empty active query, searchResults is the case-insensitive
\* non-overlapping scan of originalText for that query.
C2_ResultsAreScanOfOriginal ==
    (~crashed /\ currentSearchQuery # <<>>)
        => searchResults = Occurrences(originalText, currentSearchQuery)

\* C3: after clear() or a search with an empty query: the query is empty, there
\* are no matches, currentMatchIndex is -1 and the unannotated response body
\* is displayed.
C3_ClearRestores ==
    lastOp \in {"clear", "searchEmpty"}
        => /\ currentSearchQuery = <<>>
           /\ searchResults = <<>>
           /\ currentMatchIndex = -1
           /\ jsonResponse = respText

\* C4: after a send, successful or failed, the search state is reset and the
\* new response text is displayed as it arrived.
C4_SendResetsSearch ==
    lastOp = "send"
        => /\ currentSearchQuery = <<>>
           /\ searchResults = <<>>
           /\ currentMatchIndex = -1
           /\ originalText = <<>>
           /\ jsonResponse = respText

\* a send arrived while a search with matches was on display
C4_Witness ==
    /\ lastOp = "send"
    /\ searchEntry = <<"k">>
    /\ navEnabled
    /\ jsonResponse = <<"k", "k", "k", "k">>

\* C5: the computed offsets are the leftmost-first non-overlapping
\* case-insensitive occurrences of the query in the text: each offset is an
\* occurrence, consecutive offsets differ by at least the query length, and no
\* occurrence that starts clear of the listed matches is missing.
C5_OffsetsAreOccurrences ==
    (~crashed /\ currentSearchQuery # <<>>) =>
        LET text == originalText
            query == currentSearchQuery
            n == Len(searchResults)
            listed == {searchResults[i] : i \in 1..n}
        IN /\ \A i \in 1..n : IsOccurrence(text, query, searchResults[i])
           /\ \A i \in 1..(n - 1) :
                 searchResults[i + 1] >= searchResults[i] + Len(query)
           /\ \A p \in 0..(Len(text) - Len(query)) :
                 IsOccurrence(text, query, p)
                     => \E m \in listed : m <= p /\ p < m + Len(query)

\* C6: next() moves the cursor to (currentMatchIndex + 1) mod n, previous() to
\* (currentMatchIndex - 1) mod n; the cursor stays within 0..n-1; without
\* matches both change nothing.
C6_CyclicNavigation ==
    [][ (lastOp' \in {"next", "prev"} /\ ~crashed') =>
          LET n == Len(searchResults) IN
          IF n = 0 THEN UNCHANGED searchVars
          ELSE /\ searchResults' = searchResults
               /\ currentMatchIndex' \in 0..(n - 1)
               /\ lastOp' = "next" => currentMatchIndex' = (currentMatchIndex + 1) % n
               /\ lastOp' = "prev" => currentMatchIndex' = (currentMatchIndex - 1) % n
      ]_vars

\* next() wrapped from the last of several matches to the first
C6_Witness ==
    /\ lastOp = "next"
    /\ ~crashed
    /\ Len(searchResults) >= 2
    /\ currentMatchIndex = 0

C8_RenderWrapsMatches ==
    (~crashed /\ currentSearchQuery # <<>> /\ searchResults # <<>>)
        => jsonResponse = Wrapped(originalText, currentSearchQuery, currentMatchIndex)


\* C9: adding or importing a collection changes one workspace only, the first
\* one whose name is the selected name, and appends one collection to it.
C9_FirstWorkspaceOnly ==
    [][ (lastOp' \in {"createNewCollection", "importPostmanJSON"}
            /\ workspaces' # workspaces) =>
          LET w == FindWorkspace(workspaces, workspaceSelected) + 1 IN
          /\ w >= 1
          /\ Len(workspaces') = Len(workspaces)
          /\ workspaces'[w].name = workspaces[w].name
          /\ Len(workspaces'[w].collections) = Len(workspaces[w].collections) + 1
          /\ \A i \in 1..Len(workspaces) : i # w => workspaces'[i] = workspaces[i]
      ]_vars

\* C10: a request picked by name in the Load Request dialog fills the form
\* with the method, URL, headers and body of the first request of that name.
C10_LoadsFirstOfName ==
    [][ (lastOp' = "loadReq" /\ message' = "Pick Request") =>
          LET requests == workspaces[FindWorkspace(workspaces, workspaceSelected) + 1]
                              .collections[selectedCollectionIdx + 1].requests
          IN \E k \in 1..Len(requests) :
                LET first == requests[Min({j \in 1..Len(requests) :
                                              requests[j].name = requests[k].name})]
                IN /\ methodSelected' = first.method
                   /\ urlEntry' = first.url
                   /\ bodyEntry' = first.body
                   /\ \E o \in Orders(first.headers) : headersEntry' = HeaderText(o)
      ]_vars


\* the requests of collection number c of workspace number w (both 1-based)
RequestsAt(wss, w, c) == wss[w].collections[c].requests

\* the collections of a store, as <<workspace number, collection number>>
Places(wss) ==
    UNION {{<<w, c>> : c \in 1..Len(wss[w].collections)} : w \in 1..Len(wss)}

\* wss2 is wss but for the requests of the collection at place pl
SameButRequestsAt(wss, wss2, pl) ==
    /\ Len(wss2) = Len(wss)
    /\ \A w \in 1..Len(wss) :
          /\ wss2[w].name = wss[w].name
          /\ Len(wss2[w].collections) = Len(wss[w].collections)
          /\ \A c \in 1..Len(wss[w].collections) :
                /\ wss2[w].collections[c].name = wss[w].collections[c].name
                /\ <<w, c>> # pl => RequestsAt(wss2, w, c) = RequestsAt(wss, w, c)

\* the collection the selection names: that of the first workspace of the
\* selected name, at the selected index
SelectedPlace ==
    <<Min({w \in 1..Len(workspaces) : workspaces[w].name = workspaceSelected}),
      selectedCollectionIdx + 1>>

\* the selection and the tapped row name a request that exists
RowInBounds ==
    /\ \E w \in 1..Len(workspaces) : workspaces[w].name = workspaceSelected
    /\ SelectedPlace \in Places(workspaces)
    /\ tappedRow' \in 0..(Len(RequestsAt(workspaces, SelectedPlace[1], SelectedPlace[2])) - 1)

\* C11: a confirmed deleteRequest at a valid row i of a collection with n
\* requests leaves n-1 requests: those before i stay where they were, those
\* after i move down by one, and every other collection and workspace is
\* unchanged.
C11_DeleteShiftsDown ==
    [][ (lastOp' = "deleteRequest" /\ message' = "Delete Request: Yes" /\ RowInBounds) =>
          LET old == RequestsAt(workspaces, SelectedPlace[1], SelectedPlace[2])
              new == RequestsAt(workspaces', SelectedPlace[1], SelectedPlace[2])
              i == tappedRow' + 1
          IN /\ SameButRequestsAt(workspaces, workspaces', SelectedPlace)
             /\ Len(new) = Len(old) - 1
             /\ \A k \in 1..(i - 1) : new[k] = old[k]
             /\ \A k \in i..Len(new) : new[k] = old[k + 1]
      ]_vars

\* row 1 of three rows was deleted and the last request, which differs from
\* the first, is now at row 1
C11_Witness ==
    /\ lastOp = "deleteRequest"
    /\ message = "Delete Request: Yes"
    /\ tappedRow = 1
    /\ Len(workspaces) = 1
    /\ Len(workspaces[1].collections) = 1
    /\ Len(RequestsAt(workspaces, 1, 1)) = 2
    /\ RequestsAt(workspaces, 1, 1)[1].name = "u"
    /\ RequestsAt(workspaces, 1, 1)[2].name = "r"

\* C12 as stated: rename and delete of a row or collection out of bounds
\* change neither the store nor the file, do not panic, and signal the
\* failure (the handler shows something).
C12_OutOfRangeSignalled ==
    [][ (lastOp' \in {"editRequestName", "deleteRequest"} /\ ~RowInBounds) =>
          /\ workspaces' = workspaces
          /\ disk' = disk
          /\ ~crashed'
          /\ message' # ""
      ]_vars

\* C12, amended: rename and delete of a row or collection out of bounds
\* change neither the store nor the file and do not panic; the handler
\* returns without a result and shows nothing.
C12_OutOfRangeSilent ==
    [][ (lastOp' \in {"editRequestName", "deleteRequest"} /\ ~RowInBounds) =>
          /\ workspaces' = workspaces
          /\ disk' = disk
          /\ ~crashed'
          /\ message' = ""
      ]_vars

\* the delete button of a row past the end of a collection that has a
\* request was tapped
C12_Witness ==
    /\ lastOp = "deleteRequest"
    /\ message = ""
    /\ tappedRow >= 1
    /\ \E w \in 1..Len(workspaces) : workspaces[w].name = workspaceSelected
    /\ SelectedPlace \in Places(workspaces)
    /\ tappedRow = Len(RequestsAt(workspaces, SelectedPlace[1], SelectedPlace[2]))

\* the handlers that change the store
Mutators ==
    {"createNewWorkspace", "createNewCollection", "importPostmanJSON", "saveReq",
     "editRequestName", "deleteRequest"}

\* C14: a handler that changes the store saves it before it returns: when no
\* write of the step failed, the file holds the in-memory list.
C14_MutatorsSave ==
    [][ (lastOp' \in Mutators /\ workspaces' # workspaces /\ saveFailures' = saveFailures)
          => disk' = MarshalIndent(workspaces')
      ]_vars

\* a delete was saved after an earlier save had failed
C14_Witness ==
    /\ lastOp = "deleteRequest"
    /\ message = "Delete Request: Yes"
    /\ saveFailures > 0
    /\ Len(workspaces) = 1
    /\ disk = MarshalIndent(workspaces)

\* C15: a save that fails rolls nothing back and leaves the file as it was,
\* and a later save that succeeds writes the whole in-memory list.
C15_FailedSaveKeepsBoth ==
    [][ /\ (lastOp' \in {"createNewWorkspace", "saveReq", "deleteRequest"}
              /\ saveFailures' > saveFailures) =>
            /\ disk' = disk
            /\ StoreSize(workspaces') =
                  StoreSize(workspaces) + (IF lastOp' = "deleteRequest" THEN -1 ELSE 1)
        /\ (lastOp' \in Mutators /\ workspaces' # workspaces /\ saveFailures' = saveFailures)
              => disk' = MarshalIndent(workspaces')
      ]_vars

\* C16: every save that fails, and every file that main cannot decode,
\* brings up a message.
C16_FailuresAreShown ==
    [][ /\ saveFailures' > saveFailures => message' # ""
        /\ (lastOp' = "restart" /\ loadErr' # "nil") => message' # ""
      ]_vars

\* C17 as stated: without a file, load returns the empty list and no error,
\* and it returns an error only for a file that is not JSON.
C17_ErrorOnlyWhenMalformed ==
    lastOp \in {"init", "restart"} =>
        /\ disk = NoFile => (loadErr = "nil" /\ workspaces = <<>>)
        /\ loadErr # "nil" => disk = Truncated

\* C17, amended: without a file, load returns the empty list and no error; it
\* returns an error exactly when the file is there but cannot be read, or
\* holds a text that is not JSON, or JSON that is neither a list nor null.
C17_LoadErrors ==
    lastOp \in {"init", "restart"} =>
        /\ disk = NoFile => (loadErr = "nil" /\ workspaces = <<>>)
        /\ loadErr # "nil" <=>
              \/ disk \in {Unreadable, Truncated}
              \/ disk.t \in {"string", "object"}

\* the program was started again on the cut-off file a failed save left
C17_Witness ==
    /\ lastOp = "restart"
    /\ saveFailures > 0
    /\ disk = Truncated
    /\ loadErr = "SyntaxError"
    /\ workspaces = <<>>

\* C18: what load reads from the file that save wrote for a list is that
\* list: the same workspaces, collections and requests, in the same order.
C18_SaveLoadRoundTrip ==
    [][ (lastOp' = "restart" /\ disk = MarshalIndent(workspaces))
          => (workspaces' = workspaces /\ loadErr' = "nil")
      ]_vars

\* a list with a request that has headers and a body was read back
C18_Witness ==
    /\ lastOp = "restart"
    /\ \E pl \in Places(workspaces) :
          \E k \in 1..Len(RequestsAt(workspaces, pl[1], pl[2])) :
             LET r == RequestsAt(workspaces, pl[1], pl[2])[k] IN
             r.headers # {} /\ r.body = <<"x">>

\* C19: appending, renaming or deleting a request changes the requests of
\* one collection at most; no other collection or workspace changes.
C19_NoSharedCollections ==
    [][ lastOp' \in {"saveReq", "editRequestName", "deleteRequest"} =>
          \/ workspaces' = workspaces
          \/ /\ \E w \in 1..Len(workspaces) : workspaces[w].name = workspaceSelected
             /\ SelectedPlace \in Places(workspaces)
             /\ SameButRequestsAt(workspaces, workspaces', SelectedPlace)
      ]_vars

\* a request was renamed in the collection imported into the first of two
\* workspaces of one name, and the copy in the second kept its name
C19_Witness ==
    /\ lastOp = "editRequestName"
    /\ Len(workspaces) = 2
    /\ workspaces[1].name = workspaces[2].name
    /\ Len(workspaces[1].collections) = 1
    /\ Len(workspaces[2].collections) = 1
    /\ workspaces[1].collections[1].name = "p"
    /\ workspaces[2].collections[1].name = "p"
    /\ RequestsAt(workspaces, 1, 1) # <<>>
    /\ RequestsAt(workspaces, 2, 1) # <<>>
    /\ RequestsAt(workspaces, 1, 1)[1].name = "r"
    /\ RequestsAt(workspaces, 2, 1)[1].name = "u"

\* C13: Save Request never ends the process, whatever workspace and
\* collection index are selected.
C13_SaveNeverCrashes ==
    ~(crashed /\ lastOp = "saveReq")

\* the lines of a header text that hold a header: not blank and with a colon
HasColon(line) == \E i \in 1..Len(line) : line[i] = CO
IsHeaderLine(line) == TrimSpace(line) # <<>> /\ HasColon(line)
HeaderLinesOf(text) == SelectSeq(Split(text, NL), IsHeaderLine)

FirstColon(line) == Min({i \in 1..Len(line) : line[i] = CO})
KeyOf(line) == TrimSpace(SubSeq(line, 1, FirstColon(line) - 1))
ValueOf(line) == TrimSpace(SubSeq(line, FirstColon(line) + 1, Len(line)))

\* the values of the header lines of text whose key, seen through Norm, is
\* k, in line order
ValuesFor(text, k, Norm(_)) ==
    LET Has(line) == Norm(KeyOf(line)) = k
        ls == SelectSeq(HeaderLinesOf(text), Has)
    IN [i \in 1..Len(ls) |-> ValueOf(ls[i])]

KeysFor(text, Norm(_)) ==
    LET ls == HeaderLinesOf(text) IN {Norm(KeyOf(ls[i])) : i \in 1..Len(ls)}

AsWritten(key) == key

\* C20 as stated: the parsed headers have the trimmed keys of the header
\* lines as they were written, each with the trimmed values of its lines in
\* line order.
C20_KeysAsWritten ==
    lastOp = "send" =>
        /\ Keys(sentHeaders) = KeysFor(headersEntry, AsWritten)
        /\ \A k \in Keys(sentHeaders) :
              Get(sentHeaders, k) = ValuesFor(headersEntry, k, AsWritten)

\* C20, amended: the parsed headers have the trimmed keys of the header
\* lines in canonical MIME form, each with the trimmed values of the lines
\* whose key has that canonical form, in line order.
C20_KeysCanonical ==
    lastOp = "send" =>
        /\ Keys(sentHeaders) = KeysFor(headersEntry, CanonicalMIMEHeaderKey)
        /\ \A k \in Keys(sentHeaders) :
              Get(sentHeaders, k) = ValuesFor(headersEntry, k, CanonicalMIMEHeaderKey)

\* two lines with keys of one canonical form were sent: both values are kept
C20_Witness ==
    /\ lastOp = "send"
    /\ <<"A">> \in Keys(sentHeaders)
    /\ Get(sentHeaders, <<"A">>) = << <<"1">>, <<"2">> >>

\* C24: a send with GET, DELETE, HEAD or OPTIONS gives no body to the
\* request and counts 0 request bytes, whatever the body box holds; a send
\* with another method gives the body, empty or not, and counts its bytes.
C24_BodyOmittedByMethod ==
    lastOp = "send" =>
        IF methodSelected \in {"GET", "DELETE", "HEAD", "OPTIONS"}
        THEN sentBody = NoBody /\ reqSize = 0
        ELSE sentBody = Buffer(bodyEntry) /\ reqSize = Len(bodyEntry)

\* a GET was sent with a text in the body box, and answered
C24_Witness ==
    /\ lastOp = "send"
    /\ methodSelected = "GET"
    /\ bodyEntry = <<"x", "y">>
    /\ reqSize = 0
    /\ responseMeta # NoMeta

\* the message of each failure
ErrorTextOf(kind) ==
    CASE kind = "build" -> RequestErrorText
      [] kind = "transport" -> HTTPErrorText
      [] OTHER -> ReadErrorText

FailedOutcomes == {o \in ExchangeOutcomes : o.kind # "ok"}

\* C25: a send that fails shows the message of its failure, three different
\* messages for the three failures, and keeps nothing of the failed
\* response: not the bytes read, not its headers, not its sizes or status.
C25_FailuresShowOnlyTheirMessage ==
    [][ \A o \in FailedOutcomes : sendTapped(o) =>
          /\ jsonResponse' = ErrorTextOf(o.kind)
          /\ \A k \in {"build", "transport", "read"} \ {o.kind} :
                jsonResponse' # ErrorTextOf(k)
          /\ originalText' = <<>>
          /\ headersBox' = <<>>
          /\ responseMeta' = NoMeta
          /\ UNCHANGED <<statusColor, responseStatus>>
      ]_vars

\* the body of a 404 answer could not be read, after an answer was shown
C25_Witness ==
    /\ lastOp = "send"
    /\ jsonResponse = ReadErrorText
    /\ headersBox = <<>>
    /\ responseMeta = NoMeta
    /\ responseStatus # NoStatus

\* C26: after a send that fails the body shows the message, and the headers
\* box, the metrics label and the status indicator show nothing.
C26_FailureClearsDisplays ==
    [][ \A o \in FailedOutcomes : sendTapped(o) =>
          /\ jsonResponse' = ErrorTextOf(o.kind)
          /\ headersBox' = <<>>
          /\ responseMeta' = NoMeta
          /\ statusColor' = Black
          /\ responseStatus' = NoStatus
      ]_vars

\* the workspace (1-based) that lookups by the selected name resolve to, 0
\* when there is none
Resolved == FindWorkspace(workspaces, workspaceSelected) + 1

\* the collection an import step appended to the resolved workspace
Imported == LET cols == workspaces'[Resolved].collections IN cols[Len(cols)]

ZeroRequest == [name |-> "", method |-> "", url |-> "", headers |-> {}, body |-> <<>>]

\* C21: an import of a file that is not JSON shows a decode error and leaves
\* the store and the file of the store as they were; an import of JSON with
\* members missing adds a collection made of zero values.
C21_ImportDecode ==
    [][ lastOp' = "importPostmanJSON" =>
          /\ interchange' = Truncated =>
                (workspaces' = workspaces /\ disk' = disk /\ message' = "Invalid JSON")
          /\ (interchange' \in {EmptyFile, SparseFile} /\ Resolved > 0) =>
                /\ message' = ""
                /\ Len(workspaces'[Resolved].collections) =
                      Len(workspaces[Resolved].collections) + 1
                /\ Imported = [name |-> "",
                               requests |-> IF interchange' = EmptyFile THEN <<>>
                                            ELSE <<ZeroRequest>>]
      ]_vars

\* the url the claim gives for a url member
ExpectedURL(u) ==
    IF u.t = "string" THEN u.s
    ELSE IF u.t = "object" /\ (\E m \in u.o : m[1] = "raw" /\ m[2].t = "string")
    THEN (CHOOSE m \in u.o : m[1] = "raw")[2].s
    ELSE ""

\* C22: an imported request gets the url member itself when it is a string,
\* its raw member when it is an object with a string raw, and the empty
\* string for every other shape; none makes the import fail.
C22_ImportURLShapes ==
    [][ (/\ lastOp' = "importPostmanJSON"
         /\ interchange' \in {SparseFile, FlatFile, ShapesFile}
         /\ Resolved > 0) =>
          LET item == Member(interchange', "item").a IN
          /\ message' = ""
          /\ Len(Imported.requests) = Len(item)
          /\ \A k \in 1..Len(item) :
                Imported.requests[k].url = ExpectedURL(Member(Member(item[k], "request"), "url"))
      ]_vars

\* the file with a url of every shape was imported
C22_Witness ==
    /\ lastOp = "importPostmanJSON"
    /\ interchange = ShapesFile
    /\ \E w \in 1..Len(workspaces) : \E c \in 1..Len(workspaces[w].collections) :
          LET col == workspaces[w].collections[c] IN
          /\ col.name = "s"
          /\ [k \in 1..Len(col.requests) |-> col.requests[k].url]
                = <<"u1", "u2", "", "", "", "", "", "">>

\* Postman v2.1 collections among the files
ValidFiles == {FlatFile, FolderFile, ShorthandFile}

\* the items of a v2.1 collection that hold a request, folders opened, in
\* the order of the document
RECURSIVE LeafItems(_)
LeafItems(items) ==
    IF Len(items) = 0 THEN <<>>
    ELSE (IF Member(Head(items), "item").t = "array"
          THEN LeafItems(Member(Head(items), "item").a)
          ELSE <<Head(items)>>) \o LeafItems(Tail(items))

\* method, url in string form, body.raw and header list of a v2.1 request; a
\* request given as a string is a GET of that url
RequestView(request) ==
    IF request.t = "string"
    THEN [method |-> "GET", url |-> request.s, raw |-> <<>>, header |-> <<>>]
    ELSE [method |-> StringOf(Member(request, "method")),
          url |-> ExpectedURL(Member(request, "url")),
          raw |-> BytesOf(Member(Member(request, "body"), "raw")),
          header |-> ElementsOf(Member(request, "header"))]

\* each key of header list h is once in list e, with its last value in h
HeadersCollapsed(h, e) ==
    /\ {Member(e[i], "key") : i \in 1..Len(e)} = {Member(h[i], "key") : i \in 1..Len(h)}
    /\ \A i, j \in 1..Len(e) : Member(e[i], "key") = Member(e[j], "key") => i = j
    /\ \A i \in 1..Len(e) :
          LET same == {j \in 1..Len(h) : Member(h[j], "key") = Member(e[i], "key")}
              last == CHOOSE j \in same : \A j2 \in same : j2 <= j
          IN Member(e[i], "value") = Member(h[last], "value")

RoundTrip(read, written) ==
    LET leaves == LeafItems(ElementsOf(Member(read, "item")))
        items == ElementsOf(Member(written, "item"))
    IN /\ Member(Member(written, "info"), "name") = Member(Member(read, "info"), "name")
       /\ Len(items) = Len(leaves)
       /\ \A k \in 1..Len(items) :
             LET a == RequestView(Member(leaves[k], "request"))
                 b == RequestView(Member(items[k], "request"))
             IN /\ b.method = a.method
                /\ b.url = a.url
                /\ b.raw = a.raw
                /\ HeadersCollapsed(a.header, b.header)

\* C23: a v2.1 collection that is imported and then exported keeps its name
\* and, item by item, method, url in string form and body.raw; each header
\* key is kept once, with the last value given for it.
C23_ImportExportRoundTrip ==
    [][ (/\ lastOp = "importPostmanJSON"
         /\ interchange \in ValidFiles
         /\ Cardinality({w \in 1..Len(workspaces) : workspaces[w].name = workspaceSelected}) = 1
         /\ lastOp' = "exportCollectionJSON"
         /\ interchange'.t = "object") =>
          RoundTrip(interchange, interchange')
      ]_vars

\* the selected index is -1 or addresses a collection of the workspace that
\* lookups by the selected name resolve to
IndexValid ==
    \/ selectedCollectionIdx = -1
    \/ /\ Resolved > 0
       /\ selectedCollectionIdx \in 0..(Len(workspaces[Resolved].collections) - 1)

\* C27: after every selection, creation, import and delete the selected
\* index is -1 or valid for the resolved workspace; after a collection was
\* picked it addresses the entry picked, and after one was created or
\* imported it addresses the new collection.
C27_SelectedIndexAddresses ==
    [][ /\ IndexValid'
        /\ (lastOp' = "selectCollection" /\ selectedCollectionIdx' # -1) =>
              \E i \in 2..Len(collectionOptions) :
                 /\ selectCollection(i)
                 /\ selectedCollectionIdx' = i - 2
        /\ (lastOp' \in {"createNewCollection", "importPostmanJSON"}
               /\ workspaces' # workspaces) =>
              selectedCollectionIdx' = Len(workspaces'[Resolved].collections) - 1
      ]_vars

\* a start that could not load the file goes on, silently, with what load
\* returned: nothing, or the workspaces decoded beside the number
StartedOnBroken ==
    (lastOp \in {"init", "restart"} /\ loadErr # "nil") =>
        /\ ~crashed
        /\ message = ""
        /\ workspaces = IF disk = MixedFile
                        THEN << [name |-> "A", collections |-> <<>>],
                                [name |-> "", collections |-> <<>>] >>
                        ELSE <<>>

\* C28: a start on a file that cannot be read or decoded drops the error and
\* goes on with the empty or partly decoded list; the next handler that
\* changes the store and saves it writes that list over the file.
C28_FailedLoadIsOverwritten ==
    [][ /\ StartedOnBroken
        /\ StartedOnBroken'
        /\ (/\ loadErr # "nil"
            /\ disk \in BrokenFiles
            /\ lastOp' \in Mutators
            /\ workspaces' # workspaces
            /\ saveFailures' = saveFailures) =>
              disk' = MarshalIndent(workspaces')
      ]_vars

\* a workspace was added to the two that were decoded from the mixed list
C28_Witness ==
    /\ loadErr = "UnmarshalTypeError"
    /\ lastOp = "createNewWorkspace"
    /\ Len(workspaces) = 3
    /\ workspaces[2].name = ""
    /\ disk = MarshalIndent(workspaces)

\* C29: submitting the query that is already active steps to the next match,
\* cyclically, and leaves originalText, the query and the match offsets as
\* they were; with no match it changes nothing. It ends the process where
\* next() would: when navigateToMatch panics.
C29_SameQueryIsNext ==
    [][ (lastOp' = "searchSame" /\ ~crashed) =>
          IF Len(searchResults) > 0
          THEN LET nextIdx == (currentMatchIndex + 1) % Len(searchResults)
                   nav == navigateToMatch(nextIdx, searchResults, currentMatchIndex,
                                          jsonResponse, navEnabled, originalText,
                                          currentSearchQuery)
               IN /\ crashed' = nav.panic
                  /\ ~crashed' =>
                       /\ currentMatchIndex' = nextIdx
                       /\ UNCHANGED <<originalText, currentSearchQuery, searchResults>>
                       /\ jsonResponse' = nav.display
                       /\ navEnabled'
          ELSE UNCHANGED <<jsonResponse, originalText, currentSearchQuery,
                           searchResults, currentMatchIndex, navEnabled,
                           respText, crashed, storeVars>>
      ]_vars

\* the active query was submitted again on the last of several matches, and
\* the first one is current again
C29_Witness ==
    /\ lastOp = "searchSame"
    /\ ~crashed
    /\ Len(searchResults) >= 2
    /\ currentMatchIndex = 0

\* the active query, which matches nothing, was submitted again
C29_WitnessNoMatch ==
    /\ lastOp = "searchSame"
    /\ ~crashed
    /\ currentSearchQuery # <<>>
    /\ searchResults = <<>>

C30_UndisturbedDialog ==
    [][ (/\ pending.kind # "none"
         /\ lastOp \in {"edit", "delete"}
         /\ lastOp' \in {"editCallback", "deleteCallback"}) =>
          /\ ~crashed'
          /\ pending.reqIdx < Len(PendingRequests)
          /\ PendingRequests[pending.reqIdx + 1].name = pending.name
      ]_vars

====
